---- MODULE Spec2Model ----
(***************************************************************************)
(* Model of the price-tier / SKU reconciliation of                         *)
(* src/src/update_google_sheet.py (process_and_upload_data and             *)
(* filter_skus_by_moq), of its publisher (run_sheet_update) and of the     *)
(* request handler of src/main.py.                                         *)
(*                                                                         *)
(* Python strings are sequences of one-character strings, so that int()    *)
(* and str() are computed digit by digit; a missing dictionary key is a    *)
(* record without that field; None is the empty sequence and a given       *)
(* optional integer n is <<n>>.                                            *)
(***************************************************************************)
EXTENDS Integers, Sequences, FiniteSets, TLC

VARIABLES pc, data, min_moq, max_moq, parsed_price_ranges,
          list_after_min_filter, filtered_price_range_list_final,
          price_tiers_to_process, rows_before_filter, sku_data_final_rows,
          result, current_item_moqs, rows_to_append, price_moq_groups,
          urls, url_index, responses, http_status, product_type, current_date,
          sheet_base, sheet, merges, formulas, calls, temp_files,
          product_info, actual_start_row, config, request

\* the values computed after the row builder: the effective quantities of
\* filter_skus_by_moq, the sheet rows and their groups
passVars == <<current_item_moqs, rows_to_append, price_moq_groups>>

\* the request being served (main.py) and the destination sheet
runVars == <<urls, url_index, responses, http_status, product_type, current_date,
             sheet_base, sheet, merges, formulas, calls, temp_files,
             product_info, actual_start_row, config, request>>

vars == <<pc, data, min_moq, max_moq, parsed_price_ranges,
          list_after_min_filter, filtered_price_range_list_final,
          price_tiers_to_process, rows_before_filter, sku_data_final_rows,
          result, passVars, runVars>>

(***************************************************************************)
(* Bounds of the model.                                                    *)
(***************************************************************************)
MaxTiers == 3

MaxRowTiers == 2

MaxSkus == 2

MaxUrls == 2

(***************************************************************************)
(* Python values.                                                          *)
(***************************************************************************)
None == <<>>

Some(n) == <<n>>

EmptyStr == <<>>

Digits == <<"0", "1", "2", "3", "4", "5", "6", "7", "8", "9">>

IsDigit(c) == \E d \in 1..10 : Digits[d] = c

DigitVal(c) == (CHOOSE d \in 1..10 : Digits[d] = c) - 1

RECURSIVE DigitsVal(_)
DigitsVal(s) ==
    IF s = <<>> THEN 0
    ELSE 10 * DigitsVal(SubSeq(s, 1, Len(s) - 1)) + DigitVal(s[Len(s)])

\* the part of an integer literal after its optional sign
Unsigned(s) == IF s /= <<>> /\ s[1] \in {"-", "+"} THEN Tail(s) ELSE s

\* int(s) succeeds (does not raise ValueError) on a string s
PyIntOk(s) ==
    /\ Unsigned(s) /= <<>>
    /\ \A i \in 1..Len(Unsigned(s)) : IsDigit(Unsigned(s)[i])

\* int(s) for a string on which it succeeds
PyInt(s) ==
    IF s /= <<>> /\ s[1] = "-" THEN 0 - DigitsVal(Unsigned(s))
    ELSE DigitsVal(Unsigned(s))

RECURSIVE NatStr(_)
NatStr(n) ==
    IF n < 10 THEN <<Digits[n + 1]>>
    ELSE Append(NatStr(n \div 10), Digits[(n % 10) + 1])

\* str(n) for an integer n
PyStr(n) == IF n < 0 THEN <<"-">> \o NatStr(0 - n) ELSE NatStr(n)

\* d.get(key, default) on a record whose keys are its fields
Get(d, key, default) == IF key \in DOMAIN d THEN d[key] ELSE default

(***************************************************************************)
(* The product document (json.load of the fetched file) and the window.    *)
(***************************************************************************)
StartQuantityValues ==
    { <<"5", "0">>, <<"1", "0", "0">>, <<"5", "0", "0">>, <<"1", "0", "0", "0">>,
      <<"a", "b", "c">>, <<"-", "5">> }

\* the tier at position i of priceRangeList; its price is the position, so
\* that every tier of a list is distinguishable from the others
TierValues(i) ==
    { [startQuantity |-> q, price |-> PyStr(i)] : q \in StartQuantityValues }
      \cup { [price |-> PyStr(i)] }

RECURSIVE PriceRangeLists(_)
PriceRangeLists(n) ==
    IF n = 0 THEN { <<>> }
    ELSE PriceRangeLists(n - 1)
           \cup { Append(l, t) : l \in { p \in PriceRangeLists(n - 1) : Len(p) = n - 1 },
                                 t \in TierValues(n) }

\* productSaleInfo.price and minOrderQuantity of the product, each optional
ProductLevelValues ==
    { [priceRangeList |-> <<>>] }
      \cup { [priceRangeList |-> <<>>, price |-> <<"7">>] }
      \cup { [priceRangeList |-> <<>>, price |-> <<"1", "0", ".", "0", "0">>,
               minOrderQuantity |-> <<"5", "0">>] }
      \cup { [priceRangeList |-> <<>>, price |-> <<"N", "/", "A">>,
               minOrderQuantity |-> <<"5", "0">>] }
      \cup { [priceRangeList |-> <<>>, minOrderQuantity |-> m] :
               m \in { <<"5", "0">>, <<"1", "0", "0">>, <<"a", "b", "c">> } }
      \cup { [priceRangeList |-> <<>>, price |-> <<"7">>, minOrderQuantity |-> m] :
               m \in { <<"5", "0">>, <<"1", "0", "0">>, <<"a", "b", "c">> } }

\* the SKU at position i: skuAttributes is the text of its attributes (the
\* position), price is optional
SkuValues(i) ==
    { [skuAttributes |-> <<"s">> \o PyStr(i)],
      [skuAttributes |-> <<"s">> \o PyStr(i), price |-> <<"1", "2">>] }

RECURSIVE SkuLists(_)
SkuLists(n) ==
    IF n = 0 THEN { <<>> }
    ELSE SkuLists(n - 1)
           \cup { Append(l, k) : l \in { p \in SkuLists(n - 1) : Len(p) = n - 1 },
                                 k \in SkuValues(n) }

Documents(maxtiers, maxskus) ==
    { [p EXCEPT !.priceRangeList = t] @@ [productSkuInfos |-> s] :
        p \in ProductLevelValues, t \in PriceRangeLists(maxtiers),
        s \in SkuLists(maxskus) }

\* a value of the request's JSON body: a key left out (or null), a number
\* or a text
JsonAbsent == [kind |-> "absent", num |-> 0, text |-> <<>>]

JsonNumber(n) == [kind |-> "number", num |-> n, text |-> <<>>]

JsonString(s) == [kind |-> "string", num |-> 0, text |-> s]

\* a request that gives neither minMoq nor maxMoq
NoWindowRequest == [minMoq |-> JsonAbsent, maxMoq |-> JsonAbsent]

MinMoqValues == { None, Some(50), Some(120), Some(600) }

MaxMoqValues == { None, Some(40), Some(100), Some(900) }

(***************************************************************************)
(* Price tiers: parsing, sorting and the min/max window (lines 430-492).   *)
(***************************************************************************)
\* the loop of lines 435-443: a tier whose int(tier['startQuantity']) raises
\* KeyError or ValueError is skipped, the others carry the parsed integer
RECURSIVE ParseTiers(_)
ParseTiers(tiers) ==
    IF tiers = <<>> THEN <<>>
    ELSE LET tier == Head(tiers)
         IN  IF "startQuantity" \in DOMAIN tier /\ PyIntOk(tier.startQuantity)
             THEN <<[tier EXCEPT !.startQuantity = PyInt(tier.startQuantity)]>>
                    \o ParseTiers(Tail(tiers))
             ELSE ParseTiers(Tail(tiers))

\* the tiers left in source order
SourceOrder(tiers) == tiers

\* sorted(..., key=startQuantity) is stable: a tier goes after the tiers
\* already placed whose key is not greater
InsertByStart(s, t) ==
    LET k == Cardinality({ i \in 1..Len(s) : s[i].startQuantity <= t.startQuantity })
    IN  SubSeq(s, 1, k) \o <<t>> \o SubSeq(s, k + 1, Len(s))

RECURSIVE SortedByStart(_)
SortedByStart(tiers) ==
    IF tiers = <<>> THEN <<>>
    ELSE InsertByStart(SortedByStart(SubSeq(tiers, 1, Len(tiers) - 1)),
                       tiers[Len(tiers)])

\* s_active with the band test written as startQuantity < min_moq
SActiveStrict(ranges, min) ==
    LET next(i) == IF i + 1 <= Len(ranges) THEN Some(ranges[i + 1].startQuantity)
                   ELSE None
        hit == { i \in 1..Len(ranges) :
                   /\ ranges[i].startQuantity < min
                   /\ (next(i) = None \/ min < next(i)[1]) }
    IN  IF hit /= {}
        THEN Some(ranges[CHOOSE i \in hit : \A j \in hit : i <= j].startQuantity)
        ELSE IF ranges /= <<>> /\ min < ranges[1].startQuantity
             THEN Some(ranges[1].startQuantity)
             ELSE None

\* s_active of lines 450-458, None when no tier is active
SActive(ranges, min) ==
    LET next(i) == IF i + 1 <= Len(ranges) THEN Some(ranges[i + 1].startQuantity)
                   ELSE None
        hit == { i \in 1..Len(ranges) :
                   /\ ranges[i].startQuantity <= min
                   /\ (next(i) = None \/ min < next(i)[1]) }
    IN  IF hit /= {}
        THEN Some(ranges[CHOOSE i \in hit : \A j \in hit : i <= j].startQuantity)
        ELSE IF ranges /= <<>> /\ min < ranges[1].startQuantity
             THEN Some(ranges[1].startQuantity)
             ELSE None

RECURSIVE KeepFrom(_, _)
KeepFrom(ranges, start) ==
    IF ranges = <<>> THEN <<>>
    ELSE IF Head(ranges).startQuantity >= start
         THEN <<Head(ranges)>> \o KeepFrom(Tail(ranges), start)
         ELSE KeepFrom(Tail(ranges), start)

\* lines 448-464
MinFiltered(ranges, min) ==
    IF min /= None
    THEN IF SActive(ranges, min[1]) /= None
         THEN KeepFrom(ranges, SActive(ranges, min[1])[1])
         ELSE <<>>
    ELSE ranges

RECURSIVE KeepUpTo(_, _)
KeepUpTo(ranges, limit) ==
    IF ranges = <<>> THEN <<>>
    ELSE IF Head(ranges).startQuantity <= limit
         THEN <<Head(ranges)>> \o KeepUpTo(Tail(ranges), limit)
         ELSE KeepUpTo(Tail(ranges), limit)

\* the maximum step with the test written as startQuantity < max_moq
MaxFilteredStrict(ranges, max) ==
    IF max /= None THEN KeepUpTo(ranges, max[1] - 1) ELSE ranges

\* lines 467-473
MaxFiltered(ranges, max) ==
    IF max /= None THEN KeepUpTo(ranges, max[1]) ELSE ranges

\* lines 477-481: the tier as the row builder reads it
TierToProcess(tier) ==
    [moq |-> IF "startQuantity" \in DOMAIN tier THEN PyStr(tier.startQuantity)
             ELSE EmptyStr,
     price1688 |-> Get(tier, "price", EmptyStr)]

\* the fallback taken when either product-level field is there
FallbackTierEither(d) ==
    LET product_direct_price == Get(d, "price", EmptyStr)
        product_min_order_qty == Get(d, "minOrderQuantity", EmptyStr)
    IN  IF product_direct_price /= EmptyStr \/ product_min_order_qty /= EmptyStr
        THEN [moq |-> product_min_order_qty, price1688 |-> product_direct_price]
        ELSE [moq |-> EmptyStr, price1688 |-> EmptyStr]

\* lines 482-491: the product-level pair, or the tier of two empty strings
FallbackTier(d) ==
    LET product_direct_price == Get(d, "price", EmptyStr)
        product_min_order_qty == Get(d, "minOrderQuantity", EmptyStr)
    IN  IF product_direct_price /= EmptyStr /\ product_min_order_qty /= EmptyStr
        THEN [moq |-> product_min_order_qty, price1688 |-> product_direct_price]
        ELSE [moq |-> EmptyStr, price1688 |-> EmptyStr]

\* lines 476-491
TiersToProcess(final, d) ==
    IF final /= <<>> THEN [i \in 1..Len(final) |-> TierToProcess(final[i])]
    ELSE <<FallbackTier(d)>>

(***************************************************************************)
(* Rows: the product-level path, the SKU path and its fallback (lines      *)
(* 494-611).  A row keeps the cells the reconciliation decides: price1688, *)
(* moq and info (the text that tells the SKUs of a product apart).         *)
(***************************************************************************)
DefaultMoq == 1

LowMoqThreshold == 100

NotAvailable == <<"N", "/", "A">>

\* subjectTrans of the product, the info text of a product-level row
ProductInfo == <<"p">>

\* product_default_moq of lines 503-508 and 537-542
ProductDefaultMoq(d) ==
    LET product_min_order_qty_str == Get(d, "minOrderQuantity", PyStr(DefaultMoq))
    IN  IF PyIntOk(product_min_order_qty_str) THEN PyInt(product_min_order_qty_str)
        ELSE DefaultMoq

\* sku_info_str of lines 547-558
SkuInfo(sku) == Get(sku, "skuAttributes", NotAvailable)

\* lines 513-531: one row per tier, from product-level data
ProductRows(tiers, d) ==
    [i \in 1..Len(tiers) |->
        [price1688 |-> Get(tiers[i], "price1688", NotAvailable),
         moq |-> Get(tiers[i], "moq", PyStr(ProductDefaultMoq(d))),
         info |-> ProductInfo]]

\* the SKU rows with the quantity fixed at 1 instead of product_default_moq
RECURSIVE SkuRowsUnitMoq(_, _)
SkuRowsUnitMoq(skus, d) ==
    IF skus = <<>> THEN <<>>
    ELSE IF "price" \in DOMAIN Head(skus)
         THEN <<[price1688 |-> Head(skus).price,
                 moq |-> PyStr(DefaultMoq),
                 info |-> SkuInfo(Head(skus))]>> \o SkuRowsUnitMoq(Tail(skus), d)
         ELSE SkuRowsUnitMoq(Tail(skus), d)

\* lines 544-576: one row for every SKU that has a price, the others skipped
RECURSIVE SkuRows(_, _)
SkuRows(skus, d) ==
    IF skus = <<>> THEN <<>>
    ELSE IF "price" \in DOMAIN Head(skus)
         THEN <<[price1688 |-> Head(skus).price,
                 moq |-> PyStr(ProductDefaultMoq(d)),
                 info |-> SkuInfo(Head(skus))]>> \o SkuRows(Tail(skus), d)
         ELSE SkuRows(Tail(skus), d)

\* the rows of one tier with the SKUs taken from the last to the first
TierRowsLastSkuFirst(tier, skus, d) ==
    [k \in 1..Len(skus) |->
        [price1688 |-> Get(tier, "price1688", NotAvailable),
         moq |-> Get(tier, "moq", PyStr(ProductDefaultMoq(d))),
         info |-> SkuInfo(skus[Len(skus) + 1 - k])]]

\* the inner loop of lines 585-609: the rows of one tier, one per SKU
TierRows(tier, skus, d) ==
    [k \in 1..Len(skus) |->
        [price1688 |-> Get(tier, "price1688", NotAvailable),
         moq |-> Get(tier, "moq", PyStr(ProductDefaultMoq(d))),
         info |-> SkuInfo(skus[k])]]

\* the fallback that stops after the first tier
FallbackRowsFirstTier(tiers, skus, d) ==
    IF tiers = <<>> THEN <<>> ELSE TierRows(Head(tiers), skus, d)

\* lines 583-610
RECURSIVE FallbackRows(_, _, _)
FallbackRows(tiers, skus, d) ==
    IF tiers = <<>> THEN <<>>
    ELSE TierRows(Head(tiers), skus, d) \o FallbackRows(Tail(tiers), skus, d)

\* lines 497-611
BuiltRows(tiers, d) ==
    IF d.productSkuInfos = <<>> THEN ProductRows(tiers, d)
    ELSE IF SkuRows(d.productSkuInfos, d) = <<>> /\ tiers /= <<>>
         THEN FallbackRows(tiers, d.productSkuInfos, d)
         ELSE SkuRows(d.productSkuInfos, d)

(***************************************************************************)
(* filter_skus_by_moq (lines 196-253).                                     *)
(***************************************************************************)
\* product_default_moq of lines 206-211
FilterDefaultMoq(d) ==
    LET product_min_order_qty_str == Get(d, "minOrderQuantity", PyStr(DefaultMoq))
    IN  IF PyIntOk(product_min_order_qty_str) THEN PyInt(product_min_order_qty_str)
        ELSE DefaultMoq

\* current_item_moq falling back to 1 instead of the product default MOQ
CurrentItemMoqUnit(sku_item, d) ==
    IF "moq" \in DOMAIN sku_item /\ PyIntOk(sku_item.moq) THEN PyInt(sku_item.moq)
    ELSE DefaultMoq

\* current_item_moq of lines 217-226
CurrentItemMoq(sku_item, d) ==
    IF "moq" \in DOMAIN sku_item /\ PyIntOk(sku_item.moq) THEN PyInt(sku_item.moq)
    ELSE FilterDefaultMoq(d)

\* meets_min_moq with the low-quantity test written as <= 100
MeetsMinMoqInclusive(current_item_moq, min_moq_filter) ==
    IF current_item_moq >= min_moq_filter THEN TRUE
    ELSE current_item_moq <= LowMoqThreshold

\* meets_min_moq of lines 234-239
MeetsMinMoq(current_item_moq, min_moq_filter) ==
    IF current_item_moq >= min_moq_filter THEN TRUE
    ELSE current_item_moq < LowMoqThreshold

\* the maximum test skipped for an item let through by the low-MOQ rule
PassesMoqLowSkipsMax(sku_item, min_moq_filter, max_moq_filter, d) ==
    LET current_item_moq == CurrentItemMoq(sku_item, d)
    IN  /\ min_moq_filter /= None => MeetsMinMoq(current_item_moq, min_moq_filter[1])
        /\ \/ (min_moq_filter /= None /\ current_item_moq < min_moq_filter[1])
           \/ ~(max_moq_filter /= None /\ current_item_moq > max_moq_filter[1])

\* lines 232-250: the item is appended to filtered_list
PassesMoq(sku_item, min_moq_filter, max_moq_filter, d) ==
    LET current_item_moq == CurrentItemMoq(sku_item, d)
    IN  /\ min_moq_filter /= None => MeetsMinMoq(current_item_moq, min_moq_filter[1])
        /\ ~(max_moq_filter /= None /\ current_item_moq > max_moq_filter[1])

RECURSIVE filter_skus_by_moq(_, _, _, _)
filter_skus_by_moq(sku_data_list, min_moq_filter, max_moq_filter, d) ==
    IF min_moq_filter = None /\ max_moq_filter = None THEN sku_data_list
    ELSE IF sku_data_list = <<>> THEN <<>>
    ELSE IF PassesMoq(Head(sku_data_list), min_moq_filter, max_moq_filter, d)
         THEN <<Head(sku_data_list)>>
                \o filter_skus_by_moq(Tail(sku_data_list), min_moq_filter, max_moq_filter, d)
         ELSE filter_skus_by_moq(Tail(sku_data_list), min_moq_filter, max_moq_filter, d)

\* the effective MOQ filter_skus_by_moq computes (and prints) for each item
\* of its loop, lines 215-228; the loop is not entered without a filter
CurrentItemMoqs(sku_data_list, min_moq_filter, max_moq_filter, d) ==
    IF min_moq_filter = None /\ max_moq_filter = None THEN <<>>
    ELSE [i \in 1..Len(sku_data_list) |-> CurrentItemMoq(sku_data_list[i], d)]

\* the statistics returned when no row is left (lines 621-631)
NoDataStats(d, tiers) ==
    [rows_uploaded |-> 0,
     skus_found |-> Len(d.productSkuInfos),
     skus_after_filter |-> 0,
     price_tiers_count |-> Len(tiers),
     error |-> "No SKUs found after filtering by MOQ or no initial product/SKU data."]

(***************************************************************************)
(* The second pass (lines 633-698): the sheet rows and their groups.       *)
(* A numeric cell and a text cell are records of the same shape.  A price  *)
(* is a number of hundredths (the prices of the documents have at most two *)
(* decimals) and a customer price a number of tenths.                      *)
(***************************************************************************)
Float(n) == [kind |-> "float", num |-> n, text |-> <<>>]

Str(s) == [kind |-> "str", num |-> 0, text |-> s]

\* value.strip() of line 60
RECURSIVE LStrip(_)
LStrip(s) == IF s /= <<>> /\ Head(s) = " " THEN LStrip(Tail(s)) ELSE s

RECURSIVE RStrip(_)
RStrip(s) ==
    IF s /= <<>> /\ s[Len(s)] = " " THEN RStrip(SubSeq(s, 1, Len(s) - 1)) ELSE s

\* the replace calls of line 60 for the one-character marks
CleanedValue(value) ==
    SelectSeq(RStrip(LStrip(value)), LAMBDA c : c \notin {"$", ","})

\* the position of the decimal point of s, 0 without one
PointAt(s) ==
    IF \E i \in 1..Len(s) : s[i] = "." THEN CHOOSE i \in 1..Len(s) : s[i] = "." ELSE 0

IntPart(s) == IF PointAt(s) = 0 THEN s ELSE SubSeq(s, 1, PointAt(s) - 1)

FracPart(s) == IF PointAt(s) = 0 THEN <<>> ELSE SubSeq(s, PointAt(s) + 1, Len(s))

\* float(s) succeeds on a decimal literal: an optional sign, digits and at
\* most one point, with a digit somewhere
PyFloatOk(s) ==
    LET u == Unsigned(s)
    IN  /\ \A i \in 1..Len(IntPart(u)) : IsDigit(IntPart(u)[i])
        /\ \A i \in 1..Len(FracPart(u)) : IsDigit(FracPart(u)[i])
        /\ Len(IntPart(u)) + Len(FracPart(u)) > 0

\* float(s) in hundredths, for a literal of at most two decimals
PyFloat(s) ==
    LET u == Unsigned(s)
        f == FracPart(u)
        cents == IF Len(f) = 0 THEN 0
                 ELSE IF Len(f) = 1 THEN 10 * DigitsVal(f)
                 ELSE DigitsVal(SubSeq(f, 1, 2))
        n == 100 * DigitsVal(IntPart(u)) + cents
    IN  IF s /= <<>> /\ s[1] = "-" THEN 0 - n ELSE n

\* lines 48-66
try_convert_to_float(value) ==
    IF value = EmptyStr THEN Str(EmptyStr)
    ELSE IF PyFloatOk(CleanedValue(value)) THEN Float(PyFloat(CleanedValue(value)))
    ELSE Str(value)

\* the markup of line 646, in ten-thousandths per hundredth of price: 1.15
Markup == 115

\* the markup taken as 1.10
RoundedCustomerPricesTenPercent(price) ==
    LET x == 110 * price
        lo == x \div 1000
    IN  IF x % 1000 = 0 THEN { lo }
        ELSE IF x % 1000 < 500 THEN { lo }
        ELSE IF x % 1000 > 500 THEN { lo + 1 }
        ELSE { lo, lo + 1 }

\* round(price_1688 * 1.15, 1) of line 646, in tenths, for a price in
\* hundredths.  The product is a binary floating-point number: when the
\* decimal product lies exactly between two tenths it falls on either side
\* of the middle, and round() gives either neighbour.
RoundedCustomerPrices(price) ==
    LET x == Markup * price
        lo == x \div 1000
    IN  IF x % 1000 = 0 THEN { lo }
        ELSE IF x % 1000 < 500 THEN { lo }
        ELSE IF x % 1000 > 500 THEN { lo + 1 }
        ELSE { lo, lo + 1 }

\* line 646 raises TypeError: a text that is not a number times 1.15
PriceCustRaises(item_data) ==
    LET price_1688 == try_convert_to_float(Get(item_data, "price1688", EmptyStr))
    IN  price_1688.kind = "str" /\ price_1688.text /= EmptyStr

\* the formula numbering by ROW() instead of ROW()-1
IdFormulaRowNumber(date, tag) == [date |-> date, tag |-> tag, row_offset |-> 0]

\* id_formula of line 649: ="{current_date}_{product_type}_" & TEXT(ROW()-1,"000")
IdFormula(date, tag) == [date |-> date, tag |-> tag, row_offset |-> 1]

\* lines 644-662: the rows one item can give
RowsOfItem(item_data, date, tag) ==
    LET price_1688 == try_convert_to_float(Get(item_data, "price1688", EmptyStr))
    IN  { [id_formula |-> IdFormula(date, tag),
           price_1688 |-> price_1688,
           price_cust |-> price_cust,
           moq |-> Get(item_data, "moq", EmptyStr),
           info |-> Get(item_data, "info", EmptyStr)] :
          price_cust \in IF price_1688.kind = "float"
                         THEN { Float(c) : c \in RoundedCustomerPrices(price_1688.num) }
                         ELSE { Str(EmptyStr) } }

\* the loop of lines 643-662 on items none of which raises
RECURSIVE RowsToAppend(_, _, _)
RowsToAppend(items, date, tag) ==
    IF items = <<>> THEN { <<>> }
    ELSE { <<r>> \o rest : r \in RowsOfItem(Head(items), date, tag),
                           rest \in RowsToAppend(Tail(items), date, tag) }

\* one entry of price_moq_groups (lines 675-681 and 690-696)
MoqGroup(current_moq, current_count, start_idx_in_batch) ==
    [moq |-> current_moq,
     count |-> current_count,
     start_idx_in_batch |-> start_idx_in_batch,
     start_row |-> start_idx_in_batch,
     end_row |-> start_idx_in_batch + current_count - 1]

\* the loop of lines 669-686 from the 0-based index i on; current_moq is None
\* or Some(the quantity of the open group)
RECURSIVE GroupLoop(_, _, _, _, _, _)
GroupLoop(rows, i, current_moq, current_count, start_idx_in_batch, groups) ==
    IF i >= Len(rows)
    THEN \* lines 688-697: the last group
         IF current_moq /= None
         THEN Append(groups, MoqGroup(current_moq[1], current_count, start_idx_in_batch))
         ELSE groups
    ELSE LET moq_in_row == rows[i + 1].moq
         IN  IF Some(moq_in_row) /= current_moq
             THEN GroupLoop(rows, i + 1, Some(moq_in_row), 1, i,
                            IF current_moq /= None
                            THEN Append(groups, MoqGroup(current_moq[1], current_count,
                                                         start_idx_in_batch))
                            ELSE groups)
             ELSE GroupLoop(rows, i + 1, current_moq, current_count + 1,
                            start_idx_in_batch, groups)

\* the grouping that does not save the last group
PriceMoqGroupsLastLost(rows) ==
    LET all == GroupLoop(rows, 0, None, 0, 0, <<>>)
    IN  IF all = <<>> THEN <<>> ELSE SubSeq(all, 1, Len(all) - 1)

\* lines 665-698
PriceMoqGroups(rows) == GroupLoop(rows, 0, None, 0, 0, <<>>)

(***************************************************************************)
(* process_and_upload_data, one action per section of its body.            *)
(***************************************************************************)
Start(docs) ==
    /\ pc = "parse"
    /\ data \in docs
    /\ min_moq \in MinMoqValues
    /\ max_moq \in MaxMoqValues
    /\ parsed_price_ranges = <<>>
    /\ list_after_min_filter = <<>>
    /\ filtered_price_range_list_final = <<>>
    /\ price_tiers_to_process = <<>>
    /\ rows_before_filter = <<>>
    /\ sku_data_final_rows = <<>>
    /\ result = None
    /\ current_item_moqs = <<>>
    /\ rows_to_append = <<>>
    /\ price_moq_groups = <<>>

\* lines 435-446
ParseAndSort ==
    /\ pc = "parse"
    /\ parsed_price_ranges' = SortedByStart(ParseTiers(data.priceRangeList))
    /\ pc' = "min_filter"
    /\ UNCHANGED <<data, min_moq, max_moq, list_after_min_filter,
                   filtered_price_range_list_final, price_tiers_to_process,
                   rows_before_filter, sku_data_final_rows, result>>
    /\ UNCHANGED <<passVars, runVars>>

\* lines 448-465
MinFilter ==
    /\ pc = "min_filter"
    /\ list_after_min_filter' = MinFiltered(parsed_price_ranges, min_moq)
    /\ pc' = "max_filter"
    /\ UNCHANGED <<data, min_moq, max_moq, parsed_price_ranges,
                   filtered_price_range_list_final, price_tiers_to_process,
                   rows_before_filter, sku_data_final_rows, result>>
    /\ UNCHANGED <<passVars, runVars>>

\* lines 467-474
MaxFilter ==
    /\ pc = "max_filter"
    /\ filtered_price_range_list_final' = MaxFiltered(list_after_min_filter, max_moq)
    /\ pc' = "tiers"
    /\ UNCHANGED <<data, min_moq, max_moq, parsed_price_ranges,
                   list_after_min_filter, price_tiers_to_process,
                   rows_before_filter, sku_data_final_rows, result>>
    /\ UNCHANGED <<passVars, runVars>>

\* lines 476-492
BuildPriceTiers ==
    /\ pc = "tiers"
    /\ price_tiers_to_process' = TiersToProcess(filtered_price_range_list_final, data)
    /\ pc' = "rows"
    /\ UNCHANGED <<data, min_moq, max_moq, parsed_price_ranges,
                   list_after_min_filter, filtered_price_range_list_final,
                   rows_before_filter, sku_data_final_rows, result>>
    /\ UNCHANGED <<passVars, runVars>>

\* lines 497-611
BuildRows ==
    /\ pc = "rows"
    /\ sku_data_final_rows' = BuiltRows(price_tiers_to_process, data)
    /\ pc' = "moq_filter"
    /\ UNCHANGED <<data, min_moq, max_moq, parsed_price_ranges,
                   list_after_min_filter, filtered_price_range_list_final,
                   price_tiers_to_process, rows_before_filter, result>>
    /\ UNCHANGED <<passVars, runVars>>

\* lines 613-631; rows_before_filter is the list passed to filter_skus_by_moq
MoqFilter ==
    /\ pc = "moq_filter"
    /\ rows_before_filter' = sku_data_final_rows
    /\ sku_data_final_rows' =
          IF min_moq /= None \/ max_moq /= None
          THEN filter_skus_by_moq(sku_data_final_rows, min_moq, max_moq, data)
          ELSE sku_data_final_rows
    /\ IF sku_data_final_rows' = <<>>
       THEN /\ result' = Some(NoDataStats(data, price_tiers_to_process))
            /\ pc' = "returned"
       ELSE /\ result' = result
            /\ pc' = "second_pass"
    /\ current_item_moqs' =
          IF min_moq /= None \/ max_moq /= None
          THEN CurrentItemMoqs(sku_data_final_rows, min_moq, max_moq, data)
          ELSE <<>>
    /\ UNCHANGED <<data, min_moq, max_moq, parsed_price_ranges,
                   list_after_min_filter, filtered_price_range_list_final,
                   price_tiers_to_process, rows_to_append, price_moq_groups>>
    /\ UNCHANGED runVars

\* lines 633-698; an item whose price is a text raises TypeError at line 646
SecondPass ==
    /\ pc = "second_pass"
    /\ IF \E i \in 1..Len(sku_data_final_rows) : PriceCustRaises(sku_data_final_rows[i])
       THEN /\ pc' = "raised"
            /\ result' = Some([exception |-> "TypeError"])
            /\ UNCHANGED <<rows_to_append, price_moq_groups>>
       ELSE /\ pc' = "append"
            /\ rows_to_append' \in RowsToAppend(sku_data_final_rows, current_date, product_type)
            /\ price_moq_groups' = PriceMoqGroups(rows_to_append')
            /\ UNCHANGED result
    /\ UNCHANGED <<data, min_moq, max_moq, parsed_price_ranges,
                   list_after_min_filter, filtered_price_range_list_final,
                   price_tiers_to_process, rows_before_filter, sku_data_final_rows,
                   current_item_moqs>>
    /\ UNCHANGED runVars

\* the reconciliation taken alone: one product, tag and date, no request
RunIdle ==
    /\ urls = <<>>
    /\ url_index = 0
    /\ responses = <<>>
    /\ http_status = None
    /\ product_type = "abc"
    /\ current_date = "20240101"
    /\ sheet_base = 0
    /\ sheet = <<>>
    /\ merges = {}
    /\ formulas = {}
    /\ calls = <<>>
    /\ temp_files = {}
    /\ product_info = None
    /\ actual_start_row = 0
    /\ config = "ok"
    /\ request = NoWindowRequest

\* the tier filter on documents of up to MaxTiers tiers
InitTier == Start(Documents(MaxTiers, 0)) /\ RunIdle

NextTier == ParseAndSort \/ MinFilter \/ MaxFilter \/ BuildPriceTiers

SpecTier == InitTier /\ [][NextTier]_vars

\* the whole reconciliation on documents of up to MaxRowTiers tiers and
\* MaxSkus SKUs
Init == Start(Documents(MaxRowTiers, MaxSkus)) /\ RunIdle

Next ==
    \/ ParseAndSort
    \/ MinFilter
    \/ MaxFilter
    \/ BuildPriceTiers
    \/ BuildRows
    \/ MoqFilter
    \/ SecondPass

Spec == Init /\ [][Next]_vars

(***************************************************************************)
(* The request handler (main.py) and the publisher (run_sheet_update and   *)
(* the rest of process_and_upload_data).  The product data source and the  *)
(* spreadsheet service are the environment: every call to them either      *)
(* answers or fails, and calls records the calls made for the URL being    *)
(* processed.  The destination sheet holds sheet_base data rows written    *)
(* before the request, all of the tag BaseTag on the date BaseDate, and     *)
(* then the rows in sheet, in row order: sheet[k] is the sheet row          *)
(* sheet_base + k + 1, the header being row 1.                             *)
(***************************************************************************)
\* min_moq of main.py line 45
DefaultMinMoq == 120

\* main.py lines 43-46
MinMoqOrDefault(m) == IF m = None THEN Some(DefaultMinMoq) ELSE m

Tags == { "abc", "xyz" }

Dates == <<"20240101", "20240102">>

\* datetime.now() of line 413 does not go back
LaterDates(date) == IF date = Dates[2] THEN { Dates[2] } ELSE { Dates[1], Dates[2] }

BaseTag == "abc"

BaseDate == "20240101"

SheetBaseValues == { 0, 2, 998 }

\* the URL at position i of the request
Url(i) == <<"u">> \o PyStr(i)

UrlLists == { [i \in 1..n |-> Url(i)] : n \in 1..MaxUrls }

ConfigValues == { "ok", "no_api_key", "no_credentials" }

\* two SKUs with a price of their own, one group of two rows
TwoSkuDocument ==
    [priceRangeList |-> <<>>, minOrderQuantity |-> <<"5", "0">>,
     productSkuInfos |-> << [skuAttributes |-> <<"s", "1">>, price |-> <<"1", "2">>],
                            [skuAttributes |-> <<"s", "2">>, price |-> <<"1", "2">>] >>]

\* one product-level row
SingleRowDocument ==
    [priceRangeList |-> <<>>, price |-> <<"1", "0", ".", "0", "0">>,
     minOrderQuantity |-> <<"5", "0">>, productSkuInfos |-> <<>>]

\* two tiers and two SKUs without a price: two groups of two rows
TierDocument ==
    [priceRangeList |-> << [startQuantity |-> <<"5", "0", "0">>, price |-> <<"2">>],
                           [startQuantity |-> <<"1", "0", "0", "0">>, price |-> <<"4">>] >>,
     productSkuInfos |-> << [skuAttributes |-> <<"s", "1">>],
                            [skuAttributes |-> <<"s", "2">>] >>]

\* a product whose only row is removed by the row filter
NoDataDocument ==
    [priceRangeList |-> <<>>, minOrderQuantity |-> <<"1", "0", "0">>,
     productSkuInfos |-> <<>>]

RunDocuments == { TwoSkuDocument, SingleRowDocument, TierDocument, NoDataDocument }

\* a code point of a surrogate pair on its own, as json.loads makes it from
\* the escape \ud83d that is not followed by its second half
LoneSurrogate == "U+D83D"

\* a document whose title holds a lone surrogate
UnwritableDocument ==
    [priceRangeList |-> <<>>, productSkuInfos |-> <<>>,
     subject |-> <<"a", LoneSurrogate>>]

\* main.py lines 71-73: json.dump into the UTF-8 temporary file raises
\* UnicodeEncodeError on a text that holds a lone surrogate; the title is
\* the text of the document that may hold one
JsonDumpRaises(doc) ==
    /\ "subject" \in DOMAIN doc
    /\ \E i \in 1..Len(doc.subject) : doc.subject[i] = LoneSurrogate

\* the JSON body the data source sends with an HTTP error status
ErrorDocument == [status |-> "error", message |-> "api_error"]

\* data before json.load
NoDocument == [priceRangeList |-> <<>>, productSkuInfos |-> <<>>]

\* responses.append putting the entry first
CollectedFirst(so_far, response) == <<response>> \o so_far

\* responses.append of main.py line 160
Collected(so_far, response) == Append(so_far, response)

\* one entry of responses with every status code below 500 taken as success
ResponseBelow500(url, status_code, message) ==
    [url |-> url,
     status |-> IF status_code < 500 THEN "success" ELSE "error",
     message |-> message,
     status_code |-> status_code]

\* one entry of responses (main.py lines 160-165)
Response(url, status_code, message) ==
    [url |-> url,
     status |-> IF status_code = 200 THEN "success" ELSE "error",
     message |-> message,
     status_code |-> status_code]

\* the statistics of lines 316-323
ApiErrorStats(d) ==
    [rows_uploaded |-> 0,
     skus_found |-> 0,
     skus_after_filter |-> 0,
     price_tiers_count |-> 0,
     error |-> Get(d, "message", "No error message provided")]

\* the statistics of lines 1010-1017
UploadStats(d, rows, final_rows, tiers, groups) ==
    [rows_uploaded |-> Len(rows),
     skus_found |-> Len(d.productSkuInfos),
     skus_after_filter |-> Len(final_rows),
     price_tiers_count |-> Len(tiers),
     price_moq_groups |-> groups]

\* the message of main.py lines 90-93: the counts are written only into the
\* message of statistics without an error
StatsMessage(stats) ==
    IF "error" \notin DOMAIN stats
    THEN [kind |-> "processed",
          skus_found |-> stats.skus_found,
          skus_after_filter |-> stats.skus_after_filter,
          rows_uploaded |-> stats.rows_uploaded]
    ELSE [kind |-> "issues", error |-> stats.error]

\* status_code of main.py lines 66 and 89-95: it stays 200 whatever the
\* statistics say
StatusOfStats(stats) == 200

\* should_merge_material of lines 767-771
ShouldMergeMaterial(group, final_rows) ==
    \A i \in group.start_idx_in_batch..(group.start_idx_in_batch + group.count - 1) :
        i < Len(final_rows) =>
            Get(final_rows[i + 1], "material_source", "none") = "product"

\* one mergeCells range ending at the group's end_row
MergeRangeToEndRow(group, start_row, column) ==
    [startRowIndex |-> start_row - 1 + group.start_idx_in_batch,
     endRowIndex |-> start_row - 1 + group.end_row,
     startColumnIndex |-> column,
     endColumnIndex |-> column + 1]

\* one mergeCells range of lines 754-795
MergeRange(group, start_row, column) ==
    [startRowIndex |-> start_row - 1 + group.start_idx_in_batch,
     endRowIndex |-> start_row - 1 + group.start_idx_in_batch + group.count,
     startColumnIndex |-> column,
     endColumnIndex |-> column + 1]

\* merge_requests of lines 747-798
MergeRequests(groups, start_row, final_rows) ==
    UNION { { MergeRange(groups[k], start_row, 5), MergeRange(groups[k], start_row, 8) }
              \cup (IF ShouldMergeMaterial(groups[k], final_rows)
                    THEN { MergeRange(groups[k], start_row, 7) } ELSE {}) :
            k \in { j \in 1..Len(groups) : groups[j].end_row > groups[j].start_row } }

\* the profit formulas of lines 917-920: =IF(AND(ISNUMBER(Dr),ISNUMBER(Cr)),Dr-Cr,"")
ProfitFormulas(rows, start_row) ==
    { [row |-> start_row + i, column |-> 4,
       minuend |-> <<"D", start_row + i>>, subtrahend |-> <<"C", start_row + i>>] :
      i \in 0..(Len(rows) - 1) }

\* TEXT(n, "000") with the number wrapping at 1000
Text000Wrapped(n) ==
    IF n % 1000 < 10 THEN <<"0", "0">> \o PyStr(n % 1000)
    ELSE IF n % 1000 < 100 THEN <<"0">> \o PyStr(n % 1000)
    ELSE PyStr(n % 1000)

\* TEXT(n, "000") of the formula of line 649: at least three digits
Text000(n) ==
    IF n < 10 THEN <<"0", "0">> \o PyStr(n)
    ELSE IF n < 100 THEN <<"0">> \o PyStr(n)
    ELSE PyStr(n)

\* the identifier the sheet shows for sheet[k]: the formula of line 649
\* evaluated in the row it was written to
DisplayedId(k) ==
    [date |-> sheet[k].id_formula.date,
     tag |-> sheet[k].id_formula.tag,
     suffix |-> Text000((sheet_base + k + 1) - sheet[k].id_formula.row_offset)]

\* the row range of a call that has none
NoRange == [startIndex |-> 0, endIndex |-> 0]

Call(name, ok) == [call |-> name, ok |-> ok, range |-> NoRange]

\* the row range of lines 810-820 read as the header row onwards
RowHeightRangeFromHeader(start_row, rows) ==
    [startIndex |-> 1, endIndex |-> start_row - 1 + Len(rows)]

\* the row range of lines 810-820
RowHeightRange(start_row, rows) ==
    [startIndex |-> start_row - 1, endIndex |-> start_row - 1 + Len(rows)]

\* the exception a failed call raises
Raised(name) == Some([exception |-> name])

\* main.py lines 152-159 and 40-65: the next URL of the request enters
\* process_sourcing_request, whose locals start empty
NextUrl ==
    /\ UNCHANGED request
    /\ pc = "next_url"
    /\ url_index < Len(urls)
    /\ url_index' = url_index + 1
    /\ min_moq' = MinMoqOrDefault(min_moq)
    /\ calls' = <<>>
    /\ data' = NoDocument
    /\ product_info' = None
    /\ result' = None
    /\ actual_start_row' = 0
    /\ parsed_price_ranges' = <<>>
    /\ list_after_min_filter' = <<>>
    /\ filtered_price_range_list_final' = <<>>
    /\ price_tiers_to_process' = <<>>
    /\ rows_before_filter' = <<>>
    /\ sku_data_final_rows' = <<>>
    /\ current_item_moqs' = <<>>
    /\ rows_to_append' = <<>>
    /\ price_moq_groups' = <<>>
    /\ IF config = "ok"
       THEN /\ pc' = "fetch"
            /\ UNCHANGED responses
       ELSE /\ pc' = "next_url"
            /\ responses' = Collected(responses,
                  Response(urls[url_index'], 500, [kind |-> "config_error", error |-> config]))
    /\ UNCHANGED <<max_moq, urls, http_status, product_type, current_date,
                   sheet_base, sheet, merges, formulas, temp_files, config>>

\* main.py lines 68-76 and 103-116, lovbuy_client.py lines 22-72: the data
\* source answers with a document, answers an HTTP error with a JSON body,
\* answers an HTTP error without one, or cannot be reached; the temporary
\* file is created and the document written to it, and a failure of the
\* write is caught at line 112
Fetch ==
    /\ UNCHANGED request
    /\ pc = "fetch"
    /\ \E outcome \in { "document", "error_json", "http_error", "unreachable" } :
         IF outcome \in { "http_error", "unreachable" }
         THEN /\ calls' = Append(calls, Call("fetch", FALSE))
              /\ responses' = Collected(responses,
                    Response(urls[url_index], 400, [kind |-> "fetch_failed"]))
              /\ pc' = "next_url"
              /\ UNCHANGED <<product_info, temp_files>>
         ELSE /\ calls' = Append(calls, Call("fetch", outcome = "document"))
              /\ product_info' \in IF outcome = "document"
                                   THEN { Some(doc) : doc \in RunDocuments
                                                              \cup { UnwritableDocument } }
                                   ELSE { Some(ErrorDocument) }
              /\ temp_files' = temp_files \cup { url_index }
              /\ IF JsonDumpRaises(product_info'[1])
                 THEN /\ responses' = Collected(responses,
                            Response(urls[url_index], 500,
                                     [kind |-> "fetch_exception",
                                      error |-> "UnicodeEncodeError"]))
                      /\ pc' = "next_url"
                 ELSE /\ pc' = "get_service"
                      /\ UNCHANGED responses
    /\ UNCHANGED <<data, min_moq, max_moq, parsed_price_ranges,
                   list_after_min_filter, filtered_price_range_list_final,
                   price_tiers_to_process, rows_before_filter,
                   sku_data_final_rows, result, current_item_moqs,
                   rows_to_append, price_moq_groups, urls, url_index,
                   http_status, product_type, current_date, sheet_base,
                   sheet, merges, formulas, actual_start_row, config>>

\* get_google_sheets_service, lines 69-78 and 1025
GetService ==
    /\ UNCHANGED request
    /\ pc = "get_service"
    /\ \E ok \in BOOLEAN :
         /\ calls' = Append(calls, Call("get_service", ok))
         /\ IF ok THEN pc' = "get_sheet_id" /\ UNCHANGED result
            ELSE pc' = "raised" /\ result' = Raised("get_service")
    /\ UNCHANGED <<data, min_moq, max_moq, parsed_price_ranges,
                   list_after_min_filter, filtered_price_range_list_final,
                   price_tiers_to_process, rows_before_filter,
                   sku_data_final_rows, current_item_moqs, rows_to_append,
                   price_moq_groups, urls, url_index, responses, http_status,
                   product_type, current_date, sheet_base, sheet, merges,
                   formulas, temp_files, product_info, actual_start_row,
                   config>>

\* get_sheet_id_by_name and the creation of a missing sheet, lines 79-91
\* and 1026-1049
GetSheetId ==
    /\ UNCHANGED request
    /\ pc = "get_sheet_id"
    /\ \E outcome \in { "found", "created", "create_failed", "failed" } :
         /\ calls' = IF outcome \in { "found", "failed" }
                     THEN Append(calls, Call("get_sheet", outcome = "found"))
                     ELSE calls \o << Call("get_sheet", TRUE),
                                      Call("add_sheet", outcome = "created") >>
         /\ IF outcome \in { "found", "created" }
            THEN pc' = "ensure_header" /\ UNCHANGED result
            ELSE pc' = "raised"
                 /\ result' = Raised(IF outcome = "failed" THEN "get_sheet" ELSE "add_sheet")
    /\ UNCHANGED <<data, min_moq, max_moq, parsed_price_ranges,
                   list_after_min_filter, filtered_price_range_list_final,
                   price_tiers_to_process, rows_before_filter,
                   sku_data_final_rows, current_item_moqs, rows_to_append,
                   price_moq_groups, urls, url_index, responses, http_status,
                   product_type, current_date, sheet_base, sheet, merges,
                   formulas, temp_files, product_info, actual_start_row,
                   config>>

\* ensure_header_and_freeze, lines 92-190 and 1050
EnsureHeader ==
    /\ UNCHANGED request
    /\ pc = "ensure_header"
    /\ \E ok \in BOOLEAN :
         /\ calls' = Append(calls, Call("ensure_header", ok))
         /\ IF ok THEN pc' = "load" /\ UNCHANGED result
            ELSE pc' = "raised" /\ result' = Raised("ensure_header")
    /\ UNCHANGED <<data, min_moq, max_moq, parsed_price_ranges,
                   list_after_min_filter, filtered_price_range_list_final,
                   price_tiers_to_process, rows_before_filter,
                   sku_data_final_rows, current_item_moqs, rows_to_append,
                   price_moq_groups, urls, url_index, responses, http_status,
                   product_type, current_date, sheet_base, sheet, merges,
                   formulas, temp_files, product_info, actual_start_row,
                   config>>

\* lines 295-323: the document is read back; an error status returns
LoadData ==
    /\ UNCHANGED request
    /\ pc = "load"
    /\ data' = product_info[1]
    /\ IF "status" \in DOMAIN data' /\ data'.status /= "success"
       THEN pc' = "returned" /\ result' = Some(ApiErrorStats(data'))
       ELSE pc' = "read_ids" /\ UNCHANGED result
    /\ UNCHANGED <<min_moq, max_moq, parsed_price_ranges,
                   list_after_min_filter, filtered_price_range_list_final,
                   price_tiers_to_process, rows_before_filter,
                   sku_data_final_rows, current_item_moqs, rows_to_append,
                   price_moq_groups, urls, url_index, responses, http_status,
                   product_type, current_date, sheet_base, sheet, merges,
                   formulas, calls, temp_files, product_info,
                   actual_start_row, config>>

\* lines 385-414: the read of the identifier column, whose failure is only
\* logged, and the date of the run
ReadIdColumn ==
    /\ UNCHANGED request
    /\ pc = "read_ids"
    /\ \E ok \in BOOLEAN : calls' = Append(calls, Call("read_ids", ok))
    /\ current_date' \in LaterDates(current_date)
    /\ pc' = "parse"
    /\ UNCHANGED <<data, min_moq, max_moq, parsed_price_ranges,
                   list_after_min_filter, filtered_price_range_list_final,
                   price_tiers_to_process, rows_before_filter,
                   sku_data_final_rows, result, current_item_moqs,
                   rows_to_append, price_moq_groups, urls, url_index,
                   responses, http_status, product_type, sheet_base, sheet,
                   merges, formulas, temp_files, product_info,
                   actual_start_row, config>>

\* lines 700-745: the rows are appended after the last row of the sheet and
\* the answer tells the row they start at
AppendRows ==
    /\ UNCHANGED request
    /\ pc = "append"
    /\ url_index > 0
    /\ \E ok \in BOOLEAN :
         /\ calls' = Append(calls, Call("append", ok))
         /\ IF ok
            THEN /\ sheet' = sheet \o rows_to_append
                 /\ actual_start_row' = sheet_base + Len(sheet) + 2
                 /\ pc' = "merge"
                 /\ UNCHANGED result
            ELSE /\ pc' = "raised"
                 /\ result' = Raised("append")
                 /\ UNCHANGED <<sheet, actual_start_row>>
    /\ UNCHANGED <<data, min_moq, max_moq, parsed_price_ranges,
                   list_after_min_filter, filtered_price_range_list_final,
                   price_tiers_to_process, rows_before_filter,
                   sku_data_final_rows, current_item_moqs, rows_to_append,
                   price_moq_groups, urls, url_index, responses, http_status,
                   product_type, current_date, sheet_base, merges, formulas,
                   temp_files, product_info, config>>

\* lines 746-804; a failure from here on is caught and printed at line 999
MergeCells ==
    /\ UNCHANGED request
    /\ pc = "merge"
    /\ LET merge_requests ==
               MergeRequests(price_moq_groups, actual_start_row, sku_data_final_rows)
       IN  IF merge_requests = {}
           THEN pc' = "row_heights" /\ UNCHANGED <<calls, merges>>
           ELSE \E ok \in BOOLEAN :
                  /\ calls' = Append(calls, Call("merge", ok))
                  /\ merges' = IF ok THEN merges \cup merge_requests ELSE merges
                  /\ pc' = IF ok THEN "row_heights" ELSE "return_stats"
    /\ UNCHANGED <<data, min_moq, max_moq, parsed_price_ranges,
                   list_after_min_filter, filtered_price_range_list_final,
                   price_tiers_to_process, rows_before_filter,
                   sku_data_final_rows, result, current_item_moqs,
                   rows_to_append, price_moq_groups, urls, url_index,
                   responses, http_status, product_type, current_date,
                   sheet_base, sheet, formulas, temp_files, product_info,
                   actual_start_row, config>>

\* lines 806-821 and 850-853; the call is recorded with its row range
RowHeights ==
    /\ UNCHANGED request
    /\ pc = "row_heights"
    /\ \E ok \in BOOLEAN :
         /\ calls' = Append(calls,
               [call |-> "row_heights", ok |-> ok,
                range |-> RowHeightRange(actual_start_row, rows_to_append)])
         /\ pc' = IF ok THEN "column_widths" ELSE "return_stats"
    /\ UNCHANGED <<data, min_moq, max_moq, parsed_price_ranges,
                   list_after_min_filter, filtered_price_range_list_final,
                   price_tiers_to_process, rows_before_filter,
                   sku_data_final_rows, result, current_item_moqs,
                   rows_to_append, price_moq_groups, urls, url_index,
                   responses, http_status, product_type, current_date,
                   sheet_base, sheet, merges, formulas, temp_files,
                   product_info, actual_start_row, config>>

\* lines 823-865
ColumnWidths ==
    /\ UNCHANGED request
    /\ pc = "column_widths"
    /\ \E ok \in BOOLEAN :
         /\ calls' = Append(calls, Call("column_widths", ok))
         /\ pc' = IF ok THEN "formatting" ELSE "return_stats"
    /\ UNCHANGED <<data, min_moq, max_moq, parsed_price_ranges,
                   list_after_min_filter, filtered_price_range_list_final,
                   price_tiers_to_process, rows_before_filter,
                   sku_data_final_rows, result, current_item_moqs,
                   rows_to_append, price_moq_groups, urls, url_index,
                   responses, http_status, product_type, current_date,
                   sheet_base, sheet, merges, formulas, temp_files,
                   product_info, actual_start_row, config>>

\* lines 866-954: the formats and the profit formulas, in one request
ApplyFormatting ==
    /\ UNCHANGED request
    /\ pc = "formatting"
    /\ \E ok \in BOOLEAN :
         /\ calls' = Append(calls, Call("formatting", ok))
         /\ formulas' = IF ok
                        THEN formulas \cup ProfitFormulas(rows_to_append, actual_start_row)
                        ELSE formulas
         /\ pc' = IF ok THEN "final_formatting" ELSE "return_stats"
    /\ UNCHANGED <<data, min_moq, max_moq, parsed_price_ranges,
                   list_after_min_filter, filtered_price_range_list_final,
                   price_tiers_to_process, rows_before_filter,
                   sku_data_final_rows, result, current_item_moqs,
                   rows_to_append, price_moq_groups, urls, url_index,
                   responses, http_status, product_type, current_date,
                   sheet_base, sheet, merges, temp_files, product_info,
                   actual_start_row, config>>

\* lines 956-993: the same requests once more, with the wrapping
FinalFormatting ==
    /\ UNCHANGED request
    /\ pc = "final_formatting"
    /\ \E ok \in BOOLEAN :
         /\ calls' = Append(calls, Call("final_formatting", ok))
         /\ formulas' = IF ok
                        THEN formulas \cup ProfitFormulas(rows_to_append, actual_start_row)
                        ELSE formulas
         /\ pc' = "return_stats"
    /\ UNCHANGED <<data, min_moq, max_moq, parsed_price_ranges,
                   list_after_min_filter, filtered_price_range_list_final,
                   price_tiers_to_process, rows_before_filter,
                   sku_data_final_rows, result, current_item_moqs,
                   rows_to_append, price_moq_groups, urls, url_index,
                   responses, http_status, product_type, current_date,
                   sheet_base, sheet, merges, temp_files, product_info,
                   actual_start_row, config>>

\* lines 1010-1017
ReturnStats ==
    /\ UNCHANGED request
    /\ pc = "return_stats"
    /\ result' = Some(UploadStats(data, rows_to_append, sku_data_final_rows,
                                  price_tiers_to_process, price_moq_groups))
    /\ pc' = "returned"
    /\ UNCHANGED <<data, min_moq, max_moq, parsed_price_ranges,
                   list_after_min_filter, filtered_price_range_list_final,
                   price_tiers_to_process, rows_before_filter,
                   sku_data_final_rows, current_item_moqs, rows_to_append,
                   price_moq_groups, urls, url_index, responses, http_status,
                   product_type, current_date, sheet_base, sheet, merges,
                   formulas, calls, temp_files, product_info,
                   actual_start_row, config>>

\* main.py lines 79-101 and 160-165: the statistics or the exception of
\* run_sheet_update become the entry of the URL, and the temporary file is
\* removed
FinishUrl ==
    /\ UNCHANGED request
    /\ pc \in { "returned", "raised" }
    /\ url_index > 0
    /\ responses' = Collected(responses,
          IF pc = "returned"
          THEN Response(urls[url_index], StatusOfStats(result[1]), StatsMessage(result[1]))
          ELSE Response(urls[url_index], 500,
                        [kind |-> "sheet_error", error |-> result[1].exception]))
    /\ temp_files' = temp_files \ { url_index }
    /\ pc' = "next_url"
    /\ UNCHANGED <<data, min_moq, max_moq, parsed_price_ranges,
                   list_after_min_filter, filtered_price_range_list_final,
                   price_tiers_to_process, rows_before_filter,
                   sku_data_final_rows, result, current_item_moqs,
                   rows_to_append, price_moq_groups, urls, url_index,
                   http_status, product_type, current_date, sheet_base,
                   sheet, merges, formulas, calls, product_info,
                   actual_start_row, config>>

\* main.py lines 167-174
Respond ==
    /\ UNCHANGED request
    /\ pc = "next_url"
    /\ url_index = Len(urls)
    /\ http_status' = Some(IF \A i \in 1..Len(responses) : responses[i].status = "success"
                           THEN 200 ELSE 207)
    /\ pc' = "done"
    /\ UNCHANGED <<data, min_moq, max_moq, parsed_price_ranges,
                   list_after_min_filter, filtered_price_range_list_final,
                   price_tiers_to_process, rows_before_filter,
                   sku_data_final_rows, result, current_item_moqs,
                   rows_to_append, price_moq_groups, urls, url_index,
                   responses, product_type, current_date, sheet_base, sheet,
                   merges, formulas, calls, temp_files, product_info,
                   actual_start_row, config>>

\* handle_api_process after its checks of the request (main.py lines
\* 125-150)
InitRun ==
    /\ pc = "next_url"
    /\ urls \in UrlLists
    /\ url_index = 0
    /\ responses = <<>>
    /\ http_status = None
    /\ product_type \in Tags
    /\ current_date = Dates[1]
    /\ sheet_base \in SheetBaseValues
    /\ sheet = <<>>
    /\ merges = {}
    /\ formulas = {}
    /\ calls = <<>>
    /\ temp_files = {}
    /\ product_info = None
    /\ actual_start_row = 0
    /\ config \in ConfigValues
    /\ request = NoWindowRequest
    /\ data = NoDocument
    /\ min_moq = None
    /\ max_moq = None
    /\ parsed_price_ranges = <<>>
    /\ list_after_min_filter = <<>>
    /\ filtered_price_range_list_final = <<>>
    /\ price_tiers_to_process = <<>>
    /\ rows_before_filter = <<>>
    /\ sku_data_final_rows = <<>>
    /\ result = None
    /\ current_item_moqs = <<>>
    /\ rows_to_append = <<>>
    /\ price_moq_groups = <<>>

NextRun ==
    \/ NextUrl
    \/ Fetch
    \/ GetService
    \/ GetSheetId
    \/ EnsureHeader
    \/ LoadData
    \/ ReadIdColumn
    \/ ParseAndSort
    \/ MinFilter
    \/ MaxFilter
    \/ BuildPriceTiers
    \/ BuildRows
    \/ MoqFilter
    \/ SecondPass
    \/ AppendRows
    \/ MergeCells
    \/ RowHeights
    \/ ColumnWidths
    \/ ApplyFormatting
    \/ FinalFormatting
    \/ ReturnStats
    \/ FinishUrl
    \/ Respond

SpecRun == InitRun /\ [][NextRun]_vars

(***************************************************************************)
(* The window of a request: handle_api_process reads minMoq and maxMoq     *)
(* from the JSON body, process_sourcing_request applies the default, and   *)
(* the tier filter and the row filter run with the result.  The URL of     *)
(* the request is fetched and the sheet is reachable.                      *)
(***************************************************************************)
\* bool(v) of a JSON value
Truthy(v) ==
    \/ v.kind = "number" /\ v.num /= 0
    \/ v.kind = "string" /\ v.text /= EmptyStr

\* int(v) if v else None raises ValueError
IntRaises(v) == Truthy(v) /\ v.kind = "string" /\ ~PyIntOk(v.text)

\* int(v) if v else None
IntOrNone(v) ==
    IF ~Truthy(v) THEN None
    ELSE IF v.kind = "number" THEN Some(v.num)
    ELSE Some(PyInt(v.text))

RequestMinMoqValues ==
    { JsonAbsent, JsonNumber(0), JsonNumber(600), JsonString(<<"0">>),
      JsonString(<<"5", "0">>), JsonString(<<"a", "b", "c">>) }

RequestMaxMoqValues ==
    { JsonAbsent, JsonNumber(0), JsonNumber(900), JsonString(<<"4", "0">>) }

Requests ==
    { [minMoq |-> lo, maxMoq |-> hi] :
        lo \in RequestMinMoqValues, hi \in RequestMaxMoqValues }

\* main.py lines 138-150
HandleApiProcess ==
    /\ pc = "request"
    /\ IF IntRaises(request.minMoq) \/ IntRaises(request.maxMoq)
       THEN /\ http_status' = Some(400)
            /\ pc' = "done"
            /\ UNCHANGED <<min_moq, max_moq>>
       ELSE /\ min_moq' = IntOrNone(request.minMoq)
            /\ max_moq' = IntOrNone(request.maxMoq)
            /\ pc' = "process"
            /\ UNCHANGED http_status
    /\ UNCHANGED <<data, parsed_price_ranges, list_after_min_filter,
                   filtered_price_range_list_final, price_tiers_to_process,
                   rows_before_filter, sku_data_final_rows, result, passVars,
                   urls, url_index, responses, product_type, current_date,
                   sheet_base, sheet, merges, formulas, calls, temp_files,
                   product_info, actual_start_row, config, request>>

\* main.py lines 40-46 and 78-83: the window reaches
\* process_and_upload_data
ApplyDefaultMinMoq ==
    /\ pc = "process"
    /\ min_moq' = MinMoqOrDefault(min_moq)
    /\ pc' = "parse"
    /\ UNCHANGED <<data, max_moq, parsed_price_ranges, list_after_min_filter,
                   filtered_price_range_list_final, price_tiers_to_process,
                   rows_before_filter, sku_data_final_rows, result, passVars,
                   runVars>>

InitRequest ==
    /\ pc = "request"
    /\ request \in Requests
    /\ data \in Documents(MaxRowTiers, 0)
    /\ min_moq = None
    /\ max_moq = None
    /\ parsed_price_ranges = <<>>
    /\ list_after_min_filter = <<>>
    /\ filtered_price_range_list_final = <<>>
    /\ price_tiers_to_process = <<>>
    /\ rows_before_filter = <<>>
    /\ sku_data_final_rows = <<>>
    /\ result = None
    /\ current_item_moqs = <<>>
    /\ rows_to_append = <<>>
    /\ price_moq_groups = <<>>
    /\ urls = <<>>
    /\ url_index = 0
    /\ responses = <<>>
    /\ http_status = None
    /\ product_type = "abc"
    /\ current_date = "20240101"
    /\ sheet_base = 0
    /\ sheet = <<>>
    /\ merges = {}
    /\ formulas = {}
    /\ calls = <<>>
    /\ temp_files = {}
    /\ product_info = None
    /\ actual_start_row = 0
    /\ config = "ok"

NextRequest ==
    \/ HandleApiProcess
    \/ ApplyDefaultMinMoq
    \/ ParseAndSort
    \/ MinFilter
    \/ MaxFilter
    \/ BuildPriceTiers
    \/ BuildRows
    \/ MoqFilter

SpecRequest == InitRequest /\ [][NextRequest]_vars

(***************************************************************************)
(* Properties of the tier filter, checked under SpecTier.                  *)
(***************************************************************************)
StartQuantities(ranges) == [i \in 1..Len(ranges) |-> ranges[i].startQuantity]

Largest(S) == CHOOSE x \in S : \A y \in S : y <= x

Smallest(S) == CHOOSE x \in S : \A y \in S : x <= y

MinStepDone == pc \notin {"parse", "min_filter"}

MaxStepDone == MinStepDone /\ pc /= "max_filter"

TiersBuilt == MaxStepDone /\ pc /= "tiers"

\* C1: with minQty given, the tiers kept by the minimum step are exactly the
\* parsed tiers with startQuantity >= A, where A is the largest startQuantity
\* that is <= minQty, or the smallest startQuantity when minQty is below all.
C1_MinimumStep ==
    (MinStepDone /\ min_moq /= None /\ parsed_price_ranges /= <<>>) =>
        LET starts == { parsed_price_ranges[i].startQuantity :
                          i \in 1..Len(parsed_price_ranges) }
            below == { q \in starts : q <= min_moq[1] }
            A == IF below /= {} THEN Largest(below) ELSE Smallest(starts)
        IN  list_after_min_filter =
              SelectSeq(parsed_price_ranges, LAMBDA t : t.startQuantity >= A)

\* tiers 100/500/1000 with minQty = 600 keep 500 and 1000
C1_Witness ==
    /\ MinStepDone
    /\ min_moq = Some(600)
    /\ StartQuantities(parsed_price_ranges) = <<100, 500, 1000>>
    /\ StartQuantities(list_after_min_filter) = <<500, 1000>>

\* C2: with maxQty given, the tiers kept are exactly the survivors of the
\* minimum step with startQuantity <= maxQty; without maxQty the result of
\* the minimum step is kept unchanged.
C2_MaximumStep ==
    MaxStepDone =>
        IF max_moq /= None
        THEN filtered_price_range_list_final =
               SelectSeq(list_after_min_filter,
                         LAMBDA t : t.startQuantity <= max_moq[1])
        ELSE filtered_price_range_list_final = list_after_min_filter

\* tiers 100/500/1000 with no minQty and maxQty = 900 keep 100 and 500
C2_Witness ==
    /\ MaxStepDone
    /\ min_moq = None
    /\ max_moq = Some(900)
    /\ StartQuantities(parsed_price_ranges) = <<100, 500, 1000>>
    /\ StartQuantities(filtered_price_range_list_final) = <<100, 500>>

\* C3: whatever the order of priceRangeList and the window, the tiers the
\* filter produces, and the tiers handed on to the row builder in the same
\* order, are sorted ascending by startQuantity.
C3_SortedAscending ==
    TiersBuilt =>
        /\ \A i, j \in 1..Len(filtered_price_range_list_final) :
              i < j => filtered_price_range_list_final[i].startQuantity
                         <= filtered_price_range_list_final[j].startQuantity
        /\ filtered_price_range_list_final /= <<>> =>
              /\ Len(price_tiers_to_process) = Len(filtered_price_range_list_final)
              /\ \A i \in 1..Len(price_tiers_to_process) :
                    /\ price_tiers_to_process[i].moq
                         = PyStr(filtered_price_range_list_final[i].startQuantity)
                    /\ price_tiers_to_process[i].price1688
                         = filtered_price_range_list_final[i].price

\* a list given in descending order comes out ascending
C3_Witness ==
    /\ TiersBuilt
    /\ Len(data.priceRangeList) = 3
    /\ \A i \in 1..3 : "startQuantity" \in DOMAIN data.priceRangeList[i]
    /\ data.priceRangeList[1].startQuantity = <<"1", "0", "0", "0">>
    /\ data.priceRangeList[2].startQuantity = <<"5", "0", "0">>
    /\ data.priceRangeList[3].startQuantity = <<"1", "0", "0">>
    /\ StartQuantities(filtered_price_range_list_final) = <<100, 500, 1000>>
    /\ [i \in 1..3 |-> price_tiers_to_process[i].price1688]
         = << <<"3">>, <<"2">>, <<"1">> >>

\* C4: a tier whose startQuantity is missing, non-numeric or negative never
\* appears in the filter output: every tier of the output comes from a tier
\* of priceRangeList whose startQuantity is a non-negative integer.
C4_MalformedTiersDropped ==
    MaxStepDone =>
        \A i \in 1..Len(filtered_price_range_list_final) :
            /\ filtered_price_range_list_final[i].startQuantity >= 0
            /\ \E j \in 1..Len(data.priceRangeList) :
                  /\ "startQuantity" \in DOMAIN data.priceRangeList[j]
                  /\ PyIntOk(data.priceRangeList[j].startQuantity)
                  /\ data.priceRangeList[j].price
                       = filtered_price_range_list_final[i].price
                  /\ PyInt(data.priceRangeList[j].startQuantity)
                       = filtered_price_range_list_final[i].startQuantity

\* C5: when the filter result is empty the row builder gets exactly one
\* tier, the product-level (price, minOrderQuantity) pair when both are
\* there and the tier of two empty strings otherwise; it never gets none.
C5_FallbackTier ==
    TiersBuilt =>
        /\ Len(price_tiers_to_process) >= 1
        /\ filtered_price_range_list_final = <<>> =>
              IF "price" \in DOMAIN data /\ "minOrderQuantity" \in DOMAIN data
              THEN price_tiers_to_process =
                     <<[moq |-> data.minOrderQuantity, price1688 |-> data.price]>>
              ELSE price_tiers_to_process =
                     <<[moq |-> EmptyStr, price1688 |-> EmptyStr]>>

\* parseable tiers, none inside the window, product-level pair present
C5_Witness ==
    /\ TiersBuilt
    /\ parsed_price_ranges /= <<>>
    /\ filtered_price_range_list_final = <<>>
    /\ "price" \in DOMAIN data
    /\ "minOrderQuantity" \in DOMAIN data
    /\ Len(price_tiers_to_process) = 1
    /\ price_tiers_to_process[1].price1688 = <<"7">>

(***************************************************************************)
(* Properties of the row builder and the row filter, checked under Spec.   *)
(***************************************************************************)
RowsBuilt == pc \in {"moq_filter", "second_pass", "returned", "append", "raised"}

RowsFiltered == pc \in {"second_pass", "returned", "append", "raised"}

\* the rows as the builder left them
BuilderRows == IF pc = "moq_filter" THEN sku_data_final_rows ELSE rows_before_filter

Skus == data.productSkuInfos

HasDirectPrice(sku) == "price" \in DOMAIN sku

\* the positions of the builder's rows that belong to a SKU
RowsOfSku(sku) == { r \in 1..Len(BuilderRows) : BuilderRows[r].info = SkuInfo(sku) }

\* C6: with a non-empty SKU list, every SKU without directPrice yields one
\* row per tier (the tier's price and quantity), also when other SKUs carry
\* a directPrice: the rows are one per (SKU without directPrice, tier) plus
\* one per SKU with directPrice.
C6_TierRowsForPricelessSku ==
    (RowsBuilt /\ Skus /= <<>>) =>
        /\ \A k \in 1..Len(Skus) :
              ~HasDirectPrice(Skus[k]) =>
                 \A i \in 1..Len(price_tiers_to_process) :
                    Cardinality({ r \in RowsOfSku(Skus[k]) :
                        /\ BuilderRows[r].price1688 = price_tiers_to_process[i].price1688
                        /\ BuilderRows[r].moq = price_tiers_to_process[i].moq }) = 1
        /\ Len(BuilderRows) =
              Cardinality({ k \in 1..Len(Skus) : ~HasDirectPrice(Skus[k]) })
                 * Len(price_tiers_to_process)
               + Cardinality({ k \in 1..Len(Skus) : HasDirectPrice(Skus[k]) })

\* C7: a SKU with its own directPrice yields exactly one row, whatever the
\* number of tiers, with unitPrice = directPrice and orderQuantity = the
\* product's minOrderQuantity, or 1 when that is absent or not an integer.
C7_DirectPriceRow ==
    RowsBuilt =>
        \A k \in 1..Len(Skus) :
            HasDirectPrice(Skus[k]) =>
               /\ Cardinality(RowsOfSku(Skus[k])) = 1
               /\ \A r \in RowsOfSku(Skus[k]) :
                     /\ BuilderRows[r].price1688 = Skus[k].price
                     /\ BuilderRows[r].moq =
                          IF "minOrderQuantity" \in DOMAIN data
                               /\ PyIntOk(data.minOrderQuantity)
                          THEN PyStr(PyInt(data.minOrderQuantity))
                          ELSE <<"1">>

\* a SKU priced 12 of a product with two tiers and minOrderQuantity 100
C7_Witness ==
    /\ RowsBuilt
    /\ Len(price_tiers_to_process) = 2
    /\ Len(Skus) >= 1
    /\ HasDirectPrice(Skus[1])
    /\ "minOrderQuantity" \in DOMAIN data
    /\ data.minOrderQuantity = <<"1", "0", "0">>
    /\ Cardinality(RowsOfSku(Skus[1])) = 1
    /\ BuilderRows[1] = [price1688 |-> <<"1", "2">>, moq |-> <<"1", "0", "0">>,
                          info |-> SkuInfo(Skus[1])]

\* C8: with a non-empty SKU list of which no SKU has a directPrice, and a
\* non-empty tier list, the builder emits exactly one row for every
\* (SKU, tier) pair, so every SKU appears in a row.
C8_FallbackCrossProduct ==
    (RowsBuilt /\ Skus /= <<>> /\ price_tiers_to_process /= <<>>
       /\ \A k \in 1..Len(Skus) : ~HasDirectPrice(Skus[k])) =>
        /\ Len(BuilderRows) = Len(Skus) * Len(price_tiers_to_process)
        /\ \A k \in 1..Len(Skus) :
              /\ RowsOfSku(Skus[k]) /= {}
              /\ \A i \in 1..Len(price_tiers_to_process) :
                    Cardinality({ r \in RowsOfSku(Skus[k]) :
                        /\ BuilderRows[r].price1688 = price_tiers_to_process[i].price1688
                        /\ BuilderRows[r].moq = price_tiers_to_process[i].moq }) = 1

\* two SKUs without price and two tiers give four rows
C8_Witness ==
    /\ RowsBuilt
    /\ Len(Skus) = 2
    /\ \A k \in 1..2 : ~HasDirectPrice(Skus[k])
    /\ Len(filtered_price_range_list_final) = 2
    /\ Len(BuilderRows) = 4

\* C9: a product with no SKUs, no parseable tier and no product-level
\* fallback pair yields, for every window, exactly one output row, with
\* empty unitPrice and empty orderQuantity.
C9_OneEmptyRow ==
    (RowsFiltered /\ Skus = <<>> /\ parsed_price_ranges = <<>>
       /\ ~("price" \in DOMAIN data /\ "minOrderQuantity" \in DOMAIN data)) =>
        /\ Len(sku_data_final_rows) = 1
        /\ sku_data_final_rows[1].price1688 = EmptyStr
        /\ sku_data_final_rows[1].moq = EmptyStr

\* the quantity the row filter compares
EffectiveQty(row) ==
    IF "moq" \in DOMAIN row /\ PyIntOk(row.moq) THEN PyInt(row.moq)
    ELSE IF "minOrderQuantity" \in DOMAIN data /\ PyIntOk(data.minOrderQuantity)
         THEN PyInt(data.minOrderQuantity)
         ELSE 1

\* C10: with minQty given, a row passes the minimum check iff its effective
\* quantity is >= minQty or < 100: among the rows the maximum check lets
\* through, the rows kept are exactly those, and the rows rejected are
\* exactly those with 100 <= effective quantity < minQty.
C10_MinimumRule ==
    (RowsFiltered /\ min_moq /= None) =>
        LET withinMax == SelectSeq(rows_before_filter,
                           LAMBDA r : max_moq = None \/ EffectiveQty(r) <= max_moq[1])
        IN  /\ sku_data_final_rows =
                 SelectSeq(withinMax,
                           LAMBDA r : EffectiveQty(r) >= min_moq[1] \/ EffectiveQty(r) < 100)
            /\ \A i \in 1..Len(withinMax) :
                  (\A j \in 1..Len(sku_data_final_rows) :
                       sku_data_final_rows[j] /= withinMax[i])
                    <=> (100 <= EffectiveQty(withinMax[i])
                           /\ EffectiveQty(withinMax[i]) < min_moq[1])

\* a row of quantity 50 passes with minQty = 120
C10_Witness ==
    /\ RowsFiltered
    /\ min_moq = Some(120)
    /\ \E i \in 1..Len(rows_before_filter) :
          /\ rows_before_filter[i].moq = <<"5", "0">>
          /\ \E j \in 1..Len(sku_data_final_rows) :
                sku_data_final_rows[j] = rows_before_filter[i]

RECURSIVE IsSubSeq(_, _)
IsSubSeq(a, b) ==
    IF a = <<>> THEN TRUE
    ELSE IF b = <<>> THEN FALSE
    ELSE IF Head(a) = Head(b) THEN IsSubSeq(Tail(a), Tail(b))
    ELSE IsSubSeq(a, Tail(b))

\* C11: with maxQty given no row with effective quantity > maxQty is in the
\* output, also when it passed the minimum check through the under-100
\* rule; the output is the input with the failing rows removed: the rows
\* that pass every active check, unchanged and in their order.
C11_MaximumRule ==
    RowsFiltered =>
        /\ max_moq /= None =>
              \A j \in 1..Len(sku_data_final_rows) :
                  EffectiveQty(sku_data_final_rows[j]) <= max_moq[1]
        /\ IsSubSeq(sku_data_final_rows, rows_before_filter)
        /\ \A i \in 1..Len(rows_before_filter) :
              (\E j \in 1..Len(sku_data_final_rows) :
                   sku_data_final_rows[j] = rows_before_filter[i])
                <=> /\ (min_moq = None
                          \/ EffectiveQty(rows_before_filter[i]) >= min_moq[1]
                          \/ EffectiveQty(rows_before_filter[i]) < 100)
                    /\ (max_moq = None
                          \/ EffectiveQty(rows_before_filter[i]) <= max_moq[1])

\* a row of quantity 50 that passes minQty = 120 by the under-100 rule is
\* removed by maxQty = 40
C11_Witness ==
    /\ RowsFiltered
    /\ min_moq = Some(120)
    /\ max_moq = Some(40)
    /\ rows_before_filter /= <<>>
    /\ \A i \in 1..Len(rows_before_filter) : rows_before_filter[i].moq = <<"5", "0">>
    /\ sku_data_final_rows = <<>>

\* C12: the effective quantity of a row is its own orderQuantity when that
\* parses as an integer, and otherwise (empty as in the sentinel row, or
\* non-numeric) the product default MOQ: minOrderQuantity, or 1 when that
\* is absent or not an integer.
C12_EffectiveQuantity ==
    (RowsFiltered /\ (min_moq /= None \/ max_moq /= None)) =>
        /\ Len(current_item_moqs) = Len(rows_before_filter)
        /\ \A i \in 1..Len(rows_before_filter) :
              LET own == rows_before_filter[i].moq
                  productDefault ==
                      IF "minOrderQuantity" \notin DOMAIN data THEN 1
                      ELSE IF PyIntOk(data.minOrderQuantity)
                           THEN PyInt(data.minOrderQuantity)
                           ELSE 1
              IN  IF own /= EmptyStr /\ PyIntOk(own)
                  THEN PyStr(current_item_moqs[i]) = own
                  ELSE current_item_moqs[i] = productDefault

\* the sentinel row of a product whose minOrderQuantity is 100
C12_Witness ==
    /\ RowsFiltered
    /\ min_moq /= None
    /\ Len(rows_before_filter) = 1
    /\ rows_before_filter[1].moq = EmptyStr
    /\ "minOrderQuantity" \in DOMAIN data
    /\ data.minOrderQuantity = <<"1", "0", "0">>
    /\ current_item_moqs = <<100>>

\* the second pass has built rows_to_append and price_moq_groups
SecondPassDone == pc = "append"

\* C13: the groups of the filtered rows are the maximal runs of consecutive
\* rows of equal orderQuantity, each recorded with its start index in the
\* batch, its count and its orderQuantity: the first starts at 0, each
\* starts where the one before ends and has another quantity, the last ends
\* with the rows, and every row of a group has the quantity of the group.
C13_MaximalRuns ==
    SecondPassDone =>
        LET g == price_moq_groups
            r == rows_to_append
        IN  /\ r /= <<>> => g /= <<>>
            /\ g /= <<>> => /\ g[1].start_idx_in_batch = 0
                            /\ g[Len(g)].start_idx_in_batch + g[Len(g)].count = Len(r)
            /\ \A k \in 1..Len(g) :
                  /\ g[k].count >= 1
                  /\ \A i \in (g[k].start_idx_in_batch + 1)
                                 ..(g[k].start_idx_in_batch + g[k].count) :
                        i <= Len(r) /\ r[i].moq = g[k].moq
            /\ \A k \in 1..(Len(g) - 1) :
                  /\ g[k + 1].start_idx_in_batch = g[k].start_idx_in_batch + g[k].count
                  /\ g[k + 1].moq /= g[k].moq

\* the quantities 100, 100, 500, 500 give the groups (0, 2, 100), (2, 2, 500)
C13_Witness ==
    /\ SecondPassDone
    /\ [i \in 1..Len(rows_to_append) |-> rows_to_append[i].moq]
          = << <<"1", "0", "0">>, <<"1", "0", "0">>, <<"5", "0", "0">>, <<"5", "0", "0">> >>
    /\ [k \in 1..Len(price_moq_groups) |->
           <<price_moq_groups[k].start_idx_in_batch, price_moq_groups[k].count,
             price_moq_groups[k].moq>>]
          = << <<0, 2, <<"1", "0", "0">> >>, <<2, 2, <<"5", "0", "0">> >> >>

\* C20: the customer price of a row whose unit price parses as a number is
\* the unit price times 1.15 rounded to one decimal, that is a tenth nearest
\* to the product; the unit price "10.00" gives 11.5, "12" gives 13.8.
C20_CustomerPrice ==
    SecondPassDone =>
        /\ Len(rows_to_append) = Len(sku_data_final_rows)
        /\ \A i \in 1..Len(rows_to_append) :
              LET unitPrice == sku_data_final_rows[i].price1688
                  row == rows_to_append[i]
                  \* ten-thousandths between the customer price and the product
                  gap == 1000 * row.price_cust.num - 115 * row.price_1688.num
              IN  /\ row.price_1688.kind = "float" =>
                        /\ row.price_cust.kind = "float"
                        /\ gap <= 500 /\ 0 - gap <= 500
                  /\ unitPrice = <<"1", "0", ".", "0", "0">> =>
                        row.price_1688 = Float(1000) /\ row.price_cust = Float(115)
                  /\ unitPrice = <<"1", "2">> =>
                        row.price_1688 = Float(1200) /\ row.price_cust = Float(138)

\* the product-level row of a product whose price is "10.00"
C20_Witness ==
    /\ SecondPassDone
    /\ Len(rows_to_append) = 1
    /\ sku_data_final_rows[1].price1688 = <<"1", "0", ".", "0", "0">>
    /\ rows_to_append[1].price_cust = Float(115)

(***************************************************************************)
(* Properties of the request handler and the publisher, checked under      *)
(* SpecRun.                                                                *)
(***************************************************************************)
\* process_sourcing_request has returned for the URL at url_index: its entry
\* is the last of responses, and the locals of the call are still there
UrlFinished == pc \in {"next_url", "done"} /\ url_index >= 1

LastResponse == responses[url_index]

\* the rows of the URL just processed were appended to the sheet
RowsAppended == \E i \in 1..Len(calls) : calls[i] = Call("append", TRUE)

\* the MOQ row filter removed every row of the product just processed
NoRowsLeft ==
    /\ UrlFinished
    /\ result /= None
    /\ "error" \in DOMAIN result[1]
    /\ rows_before_filter /= <<>>
    /\ sku_data_final_rows = <<>>

\* C14: when the MOQ row filter removes every row of a product, the entry of
\* the URL is not a success, differs from the entry of a fetch failure,
\* carries the counts of SKUs and tiers found, and nothing was appended.
C14_NoDataOutcome ==
    NoRowsLeft =>
        /\ LastResponse.status /= "success"
        /\ LastResponse.message /= [kind |-> "fetch_failed"]
        /\ "skus_found" \in DOMAIN LastResponse.message
        /\ "price_tiers_count" \in DOMAIN LastResponse.message
        /\ ~RowsAppended

\* C15: every URL processed has exactly one entry, of one of three kinds:
\* a success with its row count, a result without rows after the filter, or
\* a failure with its reason; a success with a row count implies that the
\* rows were appended and that all their merges and profit formulas were
\* applied, and a failure implies that no row was appended.
C15_OneOutcomeNoPartialState ==
    UrlFinished =>
        /\ Len(responses) = url_index
        /\ LastResponse.message.kind
              \in {"processed", "issues", "config_error", "fetch_failed", "sheet_error"}
        /\ (LastResponse.status = "success" /\ LastResponse.message.kind = "processed") =>
              /\ RowsAppended
              /\ LastResponse.message.rows_uploaded = Len(rows_to_append)
              /\ MergeRequests(price_moq_groups, actual_start_row, sku_data_final_rows)
                    \subseteq merges
              /\ ProfitFormulas(rows_to_append, actual_start_row) \subseteq formulas
        /\ LastResponse.status = "error" => ~RowsAppended

\* C16: every failure of an external call made for a URL (the fetch, the
\* spreadsheet authentication, the reads and writes of the sheet: identifier
\* column, append, merges, formats) gives the URL a failure entry, and no
\* call that failed is made again.
C16_FailuresPropagated ==
    UrlFinished =>
        /\ (\E i \in 1..Len(calls) : ~calls[i].ok) => LastResponse.status = "error"
        /\ \A i \in 1..Len(calls) : \A j \in (i + 1)..Len(calls) :
              ~calls[i].ok => calls[j].call /= calls[i].call

IsPrefix(s, t) == Len(s) <= Len(t) /\ SubSeq(t, 1, Len(s)) = s

\* C17: the URLs of a request are processed one at a time in the given
\* order: every step keeps the entries and the sheet rows that are already
\* there (a failure undoes nothing), the i-th entry is that of the i-th URL,
\* and when the request is answered every URL has its entry, whatever
\* happened to the URLs before it.
C17_SequentialNoRollback ==
    [][/\ IsPrefix(responses, responses')
       /\ Len(responses') <= Len(responses) + 1
       /\ IsPrefix(sheet, sheet')
       /\ merges \subseteq merges'
       /\ formulas \subseteq formulas'
       /\ \A i \in 1..Len(responses') : responses'[i].url = urls[i]
       /\ pc' = "done" => Len(responses') = Len(urls)]_vars

\* a fetch failure on the first URL, rows appended for the second
C17_Witness ==
    /\ pc = "done"
    /\ Len(urls) = 2
    /\ responses[1].status = "error"
    /\ responses[2].status = "success"
    /\ responses[2].message.kind = "processed"
    /\ sheet /= <<>>
    /\ http_status = Some(207)

(***************************************************************************)
(* Identifiers.  The data rows written before the request show the         *)
(* identifiers BaseDate_BaseTag_001 .. BaseDate_BaseTag_(sheet_base), in   *)
(* row order, so the highest of them is sheet_base.                        *)
(***************************************************************************)
\* the number an identifier ends with
SuffixNumber(id) == PyInt(id.suffix)

Max(S) == CHOOSE x \in S : \A y \in S : y <= x

\* the highest suffix among the identifiers above sheet[k] that have the
\* date and tag of sheet[k], 0 when there is none
HighestBefore(k) ==
    Max({0}
        \cup (IF DisplayedId(k).date = BaseDate /\ DisplayedId(k).tag = BaseTag
              THEN {sheet_base} ELSE {})
        \cup { SuffixNumber(DisplayedId(i)) :
                 i \in { j \in 1..(k - 1) : /\ DisplayedId(j).date = DisplayedId(k).date
                                            /\ DisplayedId(j).tag = DisplayedId(k).tag } })

\* C18 as stated: the identifier of a new row is date_tag_NNN with NNN one
\* more than the highest suffix among the identifiers already in the sheet
\* for the same date and tag, and 001 when there is none.
C18_ContinuesPerDateAndTag ==
    \A k \in 1..Len(sheet) :
        DisplayedId(k).suffix = Text000(HighestBefore(k) + 1)

\* C18, amended: the identifier of a new row is date_tag_NNN with the date
\* and tag of its run and NNN the number of data rows above it plus one
\* (its sheet row minus 1), whatever the date and tag of the rows above;
\* two rows 001 and 002 above give 003 for every tag and date, and
\* the numbering starts at 001 only in a sheet without data rows.
C18_ContinuesPerRow ==
    \A k \in 1..Len(sheet) :
        /\ DisplayedId(k).tag = product_type
        /\ DisplayedId(k).date \in { Dates[1], Dates[2] }
        /\ SuffixNumber(DisplayedId(k)) = sheet_base + k
        /\ (sheet_base = 2 /\ k = 1) => DisplayedId(k).suffix = <<"0", "0", "3">>
        /\ (sheet_base + k = 1) <=> DisplayedId(k).suffix = <<"0", "0", "1">>

\* the first row of the tag xyz under two rows of the tag abc shows 003
C18_Witness ==
    /\ sheet_base = 2
    /\ product_type = "xyz"
    /\ sheet /= <<>>
    /\ DisplayedId(1) = [date |-> sheet[1].id_formula.date, tag |-> "xyz",
                         suffix |-> <<"0", "0", "3">>]

\* the rows of the sheet that have the same date and tag
SameBatch(i, j) ==
    /\ DisplayedId(i).date = DisplayedId(j).date
    /\ DisplayedId(i).tag = DisplayedId(j).tag

\* the identifiers of rows of the same date and tag are distinct and
\* increase in row order; the rows written before the request are taken by
\* the highest of their identifiers
DistinctAndIncreasing ==
    /\ \A i \in 1..Len(sheet) : \A j \in (i + 1)..Len(sheet) :
          SameBatch(i, j) =>
              /\ DisplayedId(i) /= DisplayedId(j)
              /\ SuffixNumber(DisplayedId(i)) < SuffixNumber(DisplayedId(j))
    /\ \A k \in 1..Len(sheet) :
          (DisplayedId(k).date = BaseDate /\ DisplayedId(k).tag = BaseTag) =>
              sheet_base < SuffixNumber(DisplayedId(k))

\* C19 as stated: after any runs the identifiers of rows of the same date and
\* tag are pairwise distinct and strictly increasing in row order, and each
\* ends with a counter of exactly three digits.
C19_ThreeDigitCounter ==
    /\ DistinctAndIncreasing
    /\ \A k \in 1..Len(sheet) :
          /\ Len(DisplayedId(k).suffix) = 3
          /\ \A c \in 1..3 : IsDigit(DisplayedId(k).suffix[c])

\* C19, amended: the identifiers of rows of the same date and tag are
\* pairwise distinct and strictly increasing in row order, and each ends
\* with the counter of its row padded with zeros to at least three digits:
\* three digits up to data row 999, the digits of the number beyond.
C19_AtLeastThreeDigits ==
    /\ DistinctAndIncreasing
    /\ \A k \in 1..Len(sheet) :
          LET suffix == DisplayedId(k).suffix
          IN  /\ \A c \in 1..Len(suffix) : IsDigit(suffix[c])
              /\ PyInt(suffix) = sheet_base + k
              /\ Len(suffix) >= 3
              /\ Len(suffix) = 3 <=> sheet_base + k <= 999
              /\ Len(suffix) > 3 => suffix = PyStr(sheet_base + k)

\* the second row appended under 998 data rows shows the suffix 1000
C19_Witness ==
    /\ sheet_base = 998
    /\ Len(sheet) >= 2
    /\ DisplayedId(1).suffix = <<"9", "9", "9">>
    /\ DisplayedId(2).suffix = <<"1", "0", "0", "0">>

(***************************************************************************)
(* Further properties of the reconciliation, checked under Spec.           *)
(***************************************************************************)
\* the second pass has ended, with the rows or with an exception
SecondPassEnded == pc \in {"append", "raised"}

\* the text of a unit price reads as a number
ParsesAsNumber(unitPrice) == unitPrice /= EmptyStr /\ PyFloatOk(CleanedValue(unitPrice))

\* C21: a row whose unit price does not parse as a number (empty, absent or
\* a text such as "N/A") is still produced, with an empty customer price,
\* and no error is raised.
C21_UnparsedPriceGivesEmptyCustomerPrice ==
    SecondPassEnded =>
        /\ pc /= "raised"
        /\ Len(rows_to_append) = Len(sku_data_final_rows)
        /\ \A i \in 1..Len(rows_to_append) :
              ~ParsesAsNumber(Get(sku_data_final_rows[i], "price1688", EmptyStr)) =>
                  rows_to_append[i].price_cust = Str(EmptyStr)


\* the product has no SKU and the tier filter kept tiers
NoSkuTierPath == Skus = <<>> /\ filtered_price_range_list_final /= <<>>

\* no SKU has a price of its own and the tier filter kept tiers
SkuFallbackPath ==
    /\ Skus /= <<>>
    /\ \A k \in 1..Len(Skus) : ~HasDirectPrice(Skus[k])
    /\ filtered_price_range_list_final /= <<>>

\* C26: on the path without SKUs and on the SKU x tier fallback path, the
\* quantities of the rows left by the row filter are exactly the
\* startQuantity values of the tiers kept by the tier filter
C26_FiltersAgree ==
    (RowsFiltered /\ (NoSkuTierPath \/ SkuFallbackPath)) =>
        { EffectiveQty(sku_data_final_rows[i]) : i \in 1..Len(sku_data_final_rows) }
            = { filtered_price_range_list_final[j].startQuantity :
                  j \in 1..Len(filtered_price_range_list_final) }

\* the rows of a list at the positions of a set, in list order
RECURSIVE RowsAt(_, _, _)
RowsAt(rows, r, positions) ==
    IF r > Len(rows) THEN <<>>
    ELSE (IF r \in positions THEN <<rows[r]>> ELSE <<>>) \o RowsAt(rows, r + 1, positions)

\* the positions, among the builder's rows, of the rows of the tiers of a
\* set when every tier has one row per SKU
PositionsOfTiers(tiers) ==
    { (t - 1) * Len(Skus) + k : t \in tiers, k \in 1..Len(Skus) }

\* the j-th tier of a set of tier positions
TierAt(tiers, j) == CHOOSE t \in tiers : Cardinality({ u \in tiers : u <= t }) = j

DistinctQuantities ==
    \A i, j \in 1..Len(filtered_price_range_list_final) :
        i /= j => filtered_price_range_list_final[i].startQuantity
                    /= filtered_price_range_list_final[j].startQuantity

\* C27: on the SKU x tier fallback path the builder's rows come tier by
\* tier, each tier with one row per SKU in SKU order; the row filter keeps
\* the rows of a set of tiers and drops those of the others; and with
\* distinct tier quantities the row groups are one per surviving tier, in
\* ascending quantity order, each counting as many rows as there are SKUs
C27_FallbackRowsTierByTier ==
    (RowsFiltered /\ SkuFallbackPath) =>
        LET final == filtered_price_range_list_final
            n == Len(Skus)
        IN  /\ Len(rows_before_filter) = Len(final) * n
            /\ \A t \in 1..Len(final) : \A k \in 1..n :
                  /\ rows_before_filter[(t - 1) * n + k].moq = PyStr(final[t].startQuantity)
                  /\ rows_before_filter[(t - 1) * n + k].info = SkuInfo(Skus[k])
            /\ \E surviving \in SUBSET (1..Len(final)) :
                  /\ sku_data_final_rows
                        = RowsAt(rows_before_filter, 1, PositionsOfTiers(surviving))
                  /\ (pc = "append" /\ DistinctQuantities) =>
                        /\ Len(price_moq_groups) = Cardinality(surviving)
                        /\ \A j \in 1..Len(price_moq_groups) :
                              /\ price_moq_groups[j].moq
                                    = PyStr(final[TierAt(surviving, j)].startQuantity)
                              /\ price_moq_groups[j].count = n
                              /\ price_moq_groups[j].start_idx_in_batch = (j - 1) * n
                        /\ \A j \in 1..(Len(price_moq_groups) - 1) :
                              PyInt(price_moq_groups[j].moq)
                                  < PyInt(price_moq_groups[j + 1].moq)

\* two SKUs and the tiers of 100 and 500 under a minimum of 120: the tier
\* filter keeps both tiers, the row filter drops the two rows of the first
C27_Witness ==
    /\ pc = "append"
    /\ SkuFallbackPath
    /\ Len(Skus) = 2
    /\ Len(filtered_price_range_list_final) = 2
    /\ Len(rows_before_filter) = 4
    /\ Len(price_moq_groups) = 1
    /\ price_moq_groups[1].count = 2

(***************************************************************************)
(* Properties of the window of a request, checked under SpecRequest.       *)
(***************************************************************************)
\* the minimum the caller gave, 120 when the caller gave none
RequestedMin ==
    IF request.minMoq = JsonAbsent THEN Some(DefaultMinMoq)
    ELSE IF request.minMoq.kind = "number" THEN Some(request.minMoq.num)
    ELSE Some(PyInt(request.minMoq.text))

\* the maximum the filters use when the caller gave none: no upper bound
RequestedMax == IF request.maxMoq = JsonAbsent THEN None ELSE max_moq

\* C22: with no minimum given the tier filter and the row filter both run
\* with minQty 120, with a minimum given (0 included) they run with that
\* value, and with no maximum given neither filter applies an upper bound
C22_WindowDefaults ==
    /\ pc \in {"max_filter", "tiers", "rows", "moq_filter", "second_pass", "returned"} =>
          list_after_min_filter = MinFiltered(parsed_price_ranges, RequestedMin)
    /\ pc \in {"tiers", "rows", "moq_filter", "second_pass", "returned"} =>
          filtered_price_range_list_final = MaxFiltered(list_after_min_filter, RequestedMax)
    /\ pc \in {"second_pass", "returned"} =>
          sku_data_final_rows =
              filter_skus_by_moq(rows_before_filter, RequestedMin, RequestedMax, data)


(***************************************************************************)
(* Properties of the writes of the publisher, checked under SpecRun.  The  *)
(* data row at the 0-based sheet index x is the sheet row x + 1; sheet[k]  *)
(* is at the index sheet_base + k.                                         *)
(***************************************************************************)
\* the 0-based indices of the rows the run of the current URL appended
AppendedIndices ==
    IF RowsAppended
    THEN { sheet_base + k : k \in (Len(sheet) - Len(rows_to_append) + 1)..Len(sheet) }
    ELSE {}

\* the 0-based indices of the rows startIndex <= x < endIndex
IndexRange(startIndex, endIndex) == { x \in startIndex..(endIndex - 1) : TRUE }

MergeDone ==
    /\ pc \in {"row_heights", "column_widths", "formatting", "final_formatting"}
    /\ RowsAppended

\* the columns id, photo, moq, material and link of EXPECTED_HEADER (line 43)
GroupColumns == { 0, 1, 5, 7, 8 }

\* C24: once the merges of a batch are made, every row group of the batch
\* has its row range merged in each of the identifier, image, quantity,
\* material and link columns
C24_GroupMergedInFiveColumns ==
    MergeDone =>
        \A k \in 1..Len(price_moq_groups) :
            price_moq_groups[k].count > 1 =>
                \A column \in GroupColumns :
                    [startRowIndex |-> sheet_base + Len(sheet) - Len(rows_to_append)
                                         + price_moq_groups[k].start_idx_in_batch + 1,
                     endRowIndex |-> sheet_base + Len(sheet) - Len(rows_to_append)
                                         + price_moq_groups[k].start_idx_in_batch
                                         + price_moq_groups[k].count + 1,
                     startColumnIndex |-> column,
                     endColumnIndex |-> column + 1] \in merges


\* the sheet row the i-th row of the current batch was written to
SheetRowOfAppended(i) == sheet_base + (Len(sheet) - Len(rows_to_append)) + i + 1

\* C25: when the publisher is done with a batch it appended, the profit cell
\* (column E) of the i-th appended row holds the formula D - C over the
\* cells of the sheet row that i-th row was written to
C25_ProfitFormulaPerRow ==
    (pc = "return_stats" /\ RowsAppended) =>
        \A i \in 1..Len(rows_to_append) :
            [row |-> SheetRowOfAppended(i), column |-> 4,
             minuend |-> <<"D", SheetRowOfAppended(i)>>,
             subtrahend |-> <<"C", SheetRowOfAppended(i)>>] \in formulas


\* the 0-based sheet index at which the batch of the current URL starts
BatchStartIndex == sheet_base + (Len(sheet) - Len(rows_to_append)) + 1

SameColumn(m1, m2) == m1.startColumnIndex = m2.startColumnIndex

Overlap(m1, m2) ==
    m1.startRowIndex < m2.endRowIndex /\ m2.startRowIndex < m1.endRowIndex

\* C28: every merge a step adds is the range [s + startIndex,
\* s + startIndex + count) of a row group of more than one row, s being the
\* index at which the batch was appended; it lies within the rows of the
\* batch; and two merges of one column with different ranges never overlap
C28_MergeRanges ==
    [][/\ \A m \in merges' \ merges :
             /\ \E k \in 1..Len(price_moq_groups) :
                   /\ price_moq_groups[k].count > 1
                   /\ m.startRowIndex
                         = BatchStartIndex + price_moq_groups[k].start_idx_in_batch
                   /\ m.endRowIndex
                         = BatchStartIndex + price_moq_groups[k].start_idx_in_batch
                             + price_moq_groups[k].count
             /\ BatchStartIndex <= m.startRowIndex
             /\ m.endRowIndex <= BatchStartIndex + Len(rows_to_append)
       /\ \A m1, m2 \in merges' :
             (m1 /= m2 /\ SameColumn(m1, m2)) => ~Overlap(m1, m2)]_vars

\* the two groups of two rows of the tier document, merged in a sheet that
\* held two rows, after a first URL whose single row needed no merge
C28_Witness ==
    /\ pc = "row_heights"
    /\ sheet_base = 2
    /\ url_index = 2
    /\ Len(sheet) = 5
    /\ Len(price_moq_groups) = 2
    /\ [startRowIndex |-> 4, endRowIndex |-> 6,
        startColumnIndex |-> 5, endColumnIndex |-> 6] \in merges
    /\ [startRowIndex |-> 6, endRowIndex |-> 8,
        startColumnIndex |-> 5, endColumnIndex |-> 6] \in merges
    /\ Cardinality(merges) = 4


(***************************************************************************)
(* Properties of the answer of the request handler, checked under SpecRun. *)
(***************************************************************************)
AllSuccess == \A i \in 1..Len(responses) : responses[i].status = "success"

\* the messages process_sourcing_request returns under "message" (with the
\* status code 200) and under "error" (with 400 or 500)
SuccessMessageKinds == { "processed", "issues" }

ErrorMessageKinds == { "config_error", "fetch_failed", "fetch_exception", "sheet_error" }

\* C29: an entry has the status success iff the status code returned for
\* its URL is 200, its message is then the message of the run and otherwise
\* the error text; the request is answered with 200 iff every entry has the
\* status success, and with 207 otherwise
C29_MultiStatus ==
    /\ \A i \in 1..Len(responses) :
          /\ responses[i].status = "success" <=> responses[i].status_code = 200
          /\ responses[i].status \in { "success", "error" }
          /\ responses[i].status_code = 200 =>
                responses[i].message.kind \in SuccessMessageKinds
          /\ responses[i].status_code /= 200 =>
                responses[i].message.kind \in ErrorMessageKinds
    /\ pc = "done" =>
          /\ http_status \in { Some(200), Some(207) }
          /\ http_status = Some(200) <=> AllSuccess
    /\ pc /= "done" => http_status = None

\* the first URL processed, the second not fetched: the answer is 207
C29_Witness ==
    /\ pc = "done"
    /\ Len(responses) = 2
    /\ responses[1].status_code = 200
    /\ responses[1].message.kind = "processed"
    /\ responses[2].status_code = 400
    /\ responses[2].status = "error"
    /\ http_status = Some(207)


\* C30: whenever process_sourcing_request is not running (between two URLs
\* and after the last), no temporary file of a fetched document exists
C30_NoTemporaryFileLeft ==
    pc \in { "next_url", "done" } => temp_files = {}

====
